---- MODULE Spec2Model ----
(***************************************************************************)
(* Model of the mc-nbt library: the tagged binary codec (NBTReader,        *)
(* NBTWriter, NBT), the text codec (SNBTConverter, SNBTParser) and the     *)
(* region archive (MCAFile) with its synchronous and asynchronous paths.   *)
(*                                                                         *)
(* Representation of JavaScript values:                                    *)
(*   tag            [type |-> "int", value |-> 42]                         *)
(*   document       [type |-> ..., name |-> <<chars>>, value |-> ...]      *)
(*   string         sequence of one-character tokens                       *)
(*   object         sequence of <<key, tag>> entries in property order     *)
(*   list payload   [type |-> "int", value |-> <<payload, ...>>]           *)
(*   float/double   [m |-> mantissa, e |-> exponent], value m * 10^e,      *)
(*                  m not divisible by 10 (0 is [m |-> 0, e |-> 0])        *)
(*   Buffer         sequence of bytes 0..255                               *)
(***************************************************************************)
EXTENDS Integers, Sequences, FiniteSets, TLC

VARIABLES
    pc,      \* position of the codec driver: "in", "emitted", "parsed"
    doc,     \* the document handed to the codec
    wire,    \* what the emitter produced: [ok, bytes] (binary) or [ok, text]
    back,    \* what the parser returned: [ok, v]
    chunks,      \* MCAFile.chunks: Map of <<x, z>> -> chunk
    locations,   \* MCAFile.locations: index -> [offset, count], unless null
    timestamps,  \* MCAFile.timestamps: index -> seconds, unless 0
    heldBuffer,  \* MCAFile._buffer: [set, file]
    disk,        \* the content of the region file
    now,         \* Math.floor(Date.now() / 1000)
    console,     \* what console.warn has been given
    tasks,       \* the asynchronous calls made on the archive
    last,        \* history: the operation that led to this state
    written,     \* history: the chunk map that save made the file from
    steps        \* history: number of operations so far

codecVars == <<pc, doc, wire, back>>
archiveVars ==
    <<chunks, locations, timestamps, heldBuffer, disk, now, console, tasks,
      last, written, steps>>

----------------------------------------------------------------------------
(* Characters and UTF-8 (Buffer.from(s, 'utf8'), buffer.toString('utf8')) *)

Printable ==
    << " ", "!", "\"", "#", "$", "%", "&", "'", "(", ")", "*", "+", ",", "-",
       ".", "/", "0", "1", "2", "3", "4", "5", "6", "7", "8", "9", ":", ";",
       "<", "=", ">", "?", "@", "A", "B", "C", "D", "E", "F", "G", "H", "I",
       "J", "K", "L", "M", "N", "O", "P", "Q", "R", "S", "T", "U", "V", "W",
       "X", "Y", "Z", "[", "\\", "]", "^", "_", "U+60", "a", "b", "c", "d", "e",
       "f", "g", "h", "i", "j", "k", "l", "m", "n", "o", "p", "q", "r", "s",
       "t", "u", "v", "w", "x", "y", "z", "{", "|", "}", "~" >>

Control ==
    << "U+00", "U+01", "U+02", "U+03", "U+04", "U+05", "U+06", "U+07", "U+08",
       "\t", "\n", "U+0B", "U+0C", "\r", "U+0E", "U+0F", "U+10", "U+11",
       "U+12", "U+13", "U+14", "U+15", "U+16", "U+17", "U+18", "U+19", "U+1A",
       "U+1B", "U+1C", "U+1D", "U+1E", "U+1F" >>

\* one two-byte character and the replacement character
EAcute == "U+E9"
Replacement == "U+FFFD"

CodePoint(c) ==
    IF \E i \in 1..Len(Printable) : Printable[i] = c
    THEN 31 + (CHOOSE i \in 1..Len(Printable) : Printable[i] = c)
    ELSE IF \E i \in 1..Len(Control) : Control[i] = c
    THEN (CHOOSE i \in 1..Len(Control) : Control[i] = c) - 1
    ELSE IF c = "U+7F" THEN 127
    ELSE IF c = EAcute THEN 233
    ELSE 65533

\* the code points of the characters of the model, as a table
CodePoints ==
    [c \in {Printable[i] : i \in 1..Len(Printable)}
            \cup {Control[i] : i \in 1..Len(Control)}
            \cup {"U+7F", EAcute, Replacement} |-> CodePoint(c)]

Ord(c) == IF c \in DOMAIN CodePoints THEN CodePoints[c] ELSE 65533

Chr(n) ==
    IF n < 32 THEN Control[n + 1]
    ELSE IF n < 127 THEN Printable[n - 31]
    ELSE IF n = 127 THEN "U+7F"
    ELSE IF n = 233 THEN EAcute
    ELSE Replacement

Utf8Char(c) ==
    LET n == Ord(c) IN
    IF n < 128 THEN <<n>>
    ELSE IF n < 2048 THEN <<192 + (n \div 64), 128 + (n % 64)>>
    ELSE <<224 + (n \div 4096), 128 + ((n \div 64) % 64), 128 + (n % 64)>>

\* a string of one-byte characters is encoded character by character
RECURSIVE Utf8Encode(_)
Utf8Encode(s) ==
    IF s = <<>> THEN <<>>
    ELSE LET codes == <<>> \o [i \in 1..Len(s) |-> Ord(s[i])]
         IN  IF \A i \in 1..Len(s) : codes[i] < 128 THEN codes
             ELSE Utf8Char(Head(s)) \o Utf8Encode(Tail(s))

IsCont(b) == b >= 128 /\ b < 192

RECURSIVE Utf8Decode(_)
Utf8Decode(bs) ==
    IF bs = <<>> THEN <<>>
    ELSE IF \A i \in 1..Len(bs) : bs[i] < 128
    THEN <<>> \o [i \in 1..Len(bs) |-> Chr(bs[i])]
    ELSE LET b == bs[1] IN
         IF b < 128 THEN <<Chr(b)>> \o Utf8Decode(Tail(bs))
         ELSE IF b >= 194 /\ b < 224 /\ Len(bs) >= 2 /\ IsCont(bs[2])
         THEN <<Chr((b - 192) * 64 + (bs[2] - 128))>>
                  \o Utf8Decode(SubSeq(bs, 3, Len(bs)))
         ELSE IF b >= 224 /\ b < 240 /\ Len(bs) >= 3 /\ IsCont(bs[2])
                 /\ IsCont(bs[3])
         THEN <<Chr((b - 224) * 4096 + (bs[2] - 128) * 64 + (bs[3] - 128))>>
                  \o Utf8Decode(SubSeq(bs, 4, Len(bs)))
         ELSE <<Replacement>> \o Utf8Decode(Tail(bs))

----------------------------------------------------------------------------
(* nbt-core.js: tag type table *)

TAG_TYPES ==
    [end |-> 0, byte |-> 1, short |-> 2, int |-> 3, long |-> 4, float |-> 5,
     double |-> 6, byte_array |-> 7, string |-> 8, list |-> 9,
     compound |-> 10, int_array |-> 11, long_array |-> 12]

TYPE_NAMES ==
    << "byte", "short", "int", "long", "float", "double", "byte_array",
       "string", "list", "compound", "int_array", "long_array" >>

\* TYPE_NAMES[id]: "end" for 0, undefined outside 0..12
TypeName(id) ==
    IF id = 0 THEN "end"
    ELSE IF id \in 1..12 THEN TYPE_NAMES[id]
    ELSE "undefined"

\* TAG_TYPES[name.toUpperCase()]: -1 stands for undefined
TypeId(name) == IF name \in DOMAIN TAG_TYPES THEN TAG_TYPES[name] ELSE -1

\* tag objects and numbers
Tag(type, value) == [type |-> type, value |-> value]
Named(tag, name) == [type |-> tag.type, name |-> name, value |-> tag.value]
Float(m, e) == [m |-> m, e |-> e]

----------------------------------------------------------------------------
(* Two's-complement and IEEE-754 byte layouts used by Buffer.read* / write* *)

RECURSIVE Pow2(_)
Pow2(n) == IF n <= 0 THEN 1 ELSE 2 * Pow2(n - 1)

RECURSIVE Log2(_)
Log2(a) == IF a < 2 THEN 0 ELSE 1 + Log2(a \div 2)

Abs(x) == IF x < 0 THEN -x ELSE x

\* big-endian two's-complement bytes of an integer that fits 32 bits
BE16(v) == <<(v \div 256) % 256, v % 256>>
BE32(v) == <<(v \div 16777216) % 256, (v \div 65536) % 256,
             (v \div 256) % 256, v % 256>>
BE64(v) == (IF v < 0 THEN <<255, 255, 255, 255>> ELSE <<0, 0, 0, 0>>) \o BE32(v)

Signed8(b) == IF b >= 128 THEN b - 256 ELSE b
I16(bs) == Signed8(bs[1]) * 256 + bs[2]
I32(bs) == Signed8(bs[1]) * 16777216 + bs[2] * 65536 + bs[3] * 256 + bs[4]
\* a 64-bit value that does not fit 32 bits is kept as its byte pattern
I64(bs) ==
    LET hi == SubSeq(bs, 1, 4)
        lo == SubSeq(bs, 5, 8)
    IN  IF (hi = <<0, 0, 0, 0>> /\ lo[1] < 128)
           \/ (hi = <<255, 255, 255, 255>> /\ lo[1] >= 128)
        THEN I32(lo)
        ELSE [big |-> bs]

\* a float is [m, e] = m * 10^e; the byte layouts are computed for the
\* multiples of 1/2 (h = twice the value)
RECURSIVE Pow10(_)
Pow10(n) == IF n <= 0 THEN 1 ELSE 10 * Pow10(n - 1)

IsHalfUnit(f) == f.e >= 0 \/ (f.e = -1 /\ f.m % 5 = 0)
HalfUnits(f) == IF f.e >= 0 THEN 2 * f.m * Pow10(f.e) ELSE f.m \div 5

RECURSIVE Normalise(_, _)
Normalise(m, e) ==
    IF m = 0 THEN [m |-> 0, e |-> 0]
    ELSE IF m % 10 = 0 THEN Normalise(m \div 10, e + 1)
    ELSE [m |-> m, e |-> e]

FromHalfUnits(h) ==
    IF h % 2 = 0 THEN Normalise(h \div 2, 0) ELSE [m |-> h * 5, e |-> -1]

Float32Bytes(f) ==
    LET h == HalfUnits(f)
        a == Abs(h)
        p == Log2(a)
        E == p - 1 + 127
        mant == (a - Pow2(p)) * Pow2(23 - p)
        s == IF h < 0 THEN 128 ELSE 0
    IN  IF h = 0 THEN <<0, 0, 0, 0>>
        ELSE <<s + (E \div 2), (E % 2) * 128 + (mant \div 65536),
               (mant \div 256) % 256, mant % 256>>

Float64Bytes(f) ==
    LET h == HalfUnits(f)
        a == Abs(h)
        p == Log2(a)
        E == p - 1 + 1023
        mant == (a - Pow2(p)) * Pow2(20 - p)
        s == IF h < 0 THEN 128 ELSE 0
    IN  IF h = 0 THEN <<0, 0, 0, 0, 0, 0, 0, 0>>
        ELSE <<s + (E \div 16), (E % 16) * 16 + (mant \div 65536),
               (mant \div 256) % 256, mant % 256, 0, 0, 0, 0>>

\* value of sign, unbiased exponent x (of the unit in the last place of the
\* 24- or 21-bit significand sig), as a float; other patterns stay raw bytes
FromBits(neg, sig, x, bs) ==
    LET sgn == IF neg THEN -1 ELSE 1 IN
    IF x >= 0 /\ x <= 6 THEN FromHalfUnits(sgn * sig * Pow2(x))
    ELSE IF x < 0 /\ x >= -24 /\ sig % Pow2(-x) = 0
    THEN FromHalfUnits(sgn * (sig \div Pow2(-x)))
    ELSE [raw |-> bs]

Float32Value(bs) ==
    LET E == (bs[1] % 128) * 2 + (bs[2] \div 128)
        mant == (bs[2] % 128) * 65536 + bs[3] * 256 + bs[4]
    IN  IF E = 0 /\ mant = 0 THEN [m |-> 0, e |-> 0]
        ELSE FromBits(bs[1] >= 128, 8388608 + mant, E - 127 - 23 + 1, bs)

Float64Value(bs) ==
    LET E == (bs[1] % 128) * 16 + (bs[2] \div 16)
        mant == (bs[2] % 16) * 65536 + bs[3] * 256 + bs[4]
    IN  IF SubSeq(bs, 5, 8) # <<0, 0, 0, 0>> THEN [raw |-> bs]
        ELSE IF E = 0 /\ mant = 0 THEN [m |-> 0, e |-> 0]
        ELSE FromBits(bs[1] >= 128, 1048576 + mant, E - 1023 - 20 + 1, bs)

----------------------------------------------------------------------------
(* nbt-core.js: class NBTWriter.  A writer result is [ok, bytes]; ok is    *)
(* FALSE when a Buffer.write* call throws (value out of range or not a     *)
(* number).                                                                *)

Wrote(bs) == [ok |-> TRUE, bytes |-> bs]
WriteThrows == [ok |-> FALSE, bytes |-> <<>>]
Then(a, b) ==
    IF ~a.ok THEN WriteThrows
    ELSE IF ~b.ok THEN WriteThrows
    ELSE Wrote(a.bytes \o b.bytes)

writeByte(value) ==
    IF value >= -128 /\ value <= 127 THEN Wrote(<<value % 256>>)
    ELSE WriteThrows

writeUByte(value) ==
    IF value >= 0 /\ value <= 255 THEN Wrote(<<value>>) ELSE WriteThrows

writeShort(value) ==
    IF value >= -32768 /\ value <= 32767 THEN Wrote(BE16(value))
    ELSE WriteThrows

\* every integer of the model fits 32 bits, so writeInt32BE accepts it
writeInt(value) == Wrote(BE32(value))

writeLong(value) == Wrote(BE64(value))

writeFloat(value) == Wrote(Float32Bytes(value))

writeDouble(value) == Wrote(Float64Bytes(value))

writeString(value) ==
    LET strBuffer == Utf8Encode(value)
    IN  Then(writeShort(Len(strBuffer)), Wrote(strBuffer))

RECURSIVE writeEach(_, _)
\* array.forEach(x => this.writeTagValue(type, x)) for a scalar type
RECURSIVE writeTagValue(_, _)
RECURSIVE writeList(_)
RECURSIVE writeCompound(_)

writeEach(type, array) ==
    IF array = <<>> THEN Wrote(<<>>)
    ELSE Then(writeTagValue(type, Head(array)), writeEach(type, Tail(array)))

writeByteArray(array) == Then(writeInt(Len(array)), writeEach("byte", array))

writeIntArray(array) == Then(writeInt(Len(array)), writeEach("int", array))

writeLongArray(array) == Then(writeInt(Len(array)), writeEach("long", array))

writeTagValue(type, value) ==
    CASE type = "byte" -> writeByte(value)
      [] type = "short" -> writeShort(value)
      [] type = "int" -> writeInt(value)
      [] type = "long" -> writeLong(value)
      [] type = "float" -> writeFloat(value)
      [] type = "double" -> writeDouble(value)
      [] type = "byte_array" -> writeByteArray(value)
      [] type = "string" -> writeString(value)
      [] type = "list" -> writeList(value)
      [] type = "compound" -> writeCompound(value)
      [] type = "int_array" -> writeIntArray(value)
      [] type = "long_array" -> writeLongArray(value)
      [] OTHER -> WriteThrows

writeList(list) ==
    IF Len(list.value) = 0
    THEN Then(writeUByte(TAG_TYPES.end), writeInt(0))
    ELSE Then(writeUByte(TypeId(list.type)),
              Then(writeInt(Len(list.value)),
                   writeEach(list.type, list.value)))

writeCompound(compound) ==
    IF compound = <<>> THEN writeUByte(TAG_TYPES.end)
    ELSE LET name == Head(compound)[1]
             tag == Head(compound)[2]
         IN  Then(writeUByte(TypeId(tag.type)),
                  Then(writeString(name),
                       Then(writeTagValue(tag.type, tag.value),
                            writeCompound(Tail(compound)))))

writeTag(tag, name) ==
    Then(writeUByte(TypeId(tag.type)),
         Then(writeString(name), writeTagValue(tag.type, tag.value)))

\* nbtData.name || '': a document without a name field is written unnamed
NBT_stringify(nbtData) ==
    writeTag(nbtData, IF "name" \in DOMAIN nbtData THEN nbtData.name ELSE <<>>)

----------------------------------------------------------------------------
(* nbt-core.js: class NBTReader.  A reader result is [ok, v, off]; ok is   *)
(* FALSE when a Buffer.read* call throws (offset outside the buffer) or    *)
(* readTagValue meets an unknown type.                                     *)

Read(v, off) == [ok |-> TRUE, v |-> v, off |-> off]
ReadThrows == [ok |-> FALSE, v |-> "error", off |-> 0]

\* buffer.readXxx(offset) throws unless 0 <= offset <= length - width
InBounds(buf, off, width) == off >= 0 /\ off + width <= Len(buf)
Bytes(buf, off, width) == SubSeq(buf, off + 1, off + width)

readByte(buf, off) ==
    IF InBounds(buf, off, 1) THEN Read(Signed8(buf[off + 1]), off + 1)
    ELSE ReadThrows

readUByte(buf, off) ==
    IF InBounds(buf, off, 1) THEN Read(buf[off + 1], off + 1) ELSE ReadThrows

readShort(buf, off) ==
    IF InBounds(buf, off, 2) THEN Read(I16(Bytes(buf, off, 2)), off + 2)
    ELSE ReadThrows

readInt(buf, off) ==
    IF InBounds(buf, off, 4) THEN Read(I32(Bytes(buf, off, 4)), off + 4)
    ELSE ReadThrows

readLong(buf, off) ==
    IF InBounds(buf, off, 8) THEN Read(I64(Bytes(buf, off, 8)), off + 8)
    ELSE ReadThrows

readFloat(buf, off) ==
    IF InBounds(buf, off, 4)
    THEN Read(Float32Value(Bytes(buf, off, 4)), off + 4)
    ELSE ReadThrows

readDouble(buf, off) ==
    IF InBounds(buf, off, 8)
    THEN Read(Float64Value(Bytes(buf, off, 8)), off + 8)
    ELSE ReadThrows

\* buffer.toString('utf8', start, end) clamps start and end to the buffer
\* and returns '' when end <= start; it never throws
BufferToString(buf, start, end) ==
    LET s == IF start < 0 THEN 0 ELSE start
        e == IF end > Len(buf) THEN Len(buf) ELSE end
    IN  IF e <= s THEN <<>> ELSE Utf8Decode(SubSeq(buf, s + 1, e))

readString(buf, off) ==
    LET length == readShort(buf, off) IN
    IF ~length.ok THEN ReadThrows
    ELSE IF length.v = 0 THEN Read(<<>>, length.off)
    ELSE Read(BufferToString(buf, length.off, length.off + length.v),
              length.off + length.v)

RECURSIVE readTagValue(_, _, _)
RECURSIVE readItems(_, _, _, _, _)
RECURSIVE readCompoundLoop(_, _, _)

\* for (let i = 0; i < length; i++) array.push(this.readTagValue(type))
readItems(buf, off, type, length, array) ==
    IF length <= 0 THEN Read(array, off)
    ELSE LET item == readTagValue(buf, off, type) IN
         IF ~item.ok THEN ReadThrows
         ELSE readItems(buf, item.off, type, length - 1, Append(array, item.v))

readArray(buf, off, type) ==
    LET length == readInt(buf, off) IN
    IF ~length.ok THEN ReadThrows
    ELSE readItems(buf, length.off, type, length.v, <<>>)

readByteArray(buf, off) == readArray(buf, off, TAG_TYPES.byte)

readIntArray(buf, off) == readArray(buf, off, TAG_TYPES.int)

readLongArray(buf, off) == readArray(buf, off, TAG_TYPES.long)

readList(buf, off) ==
    LET listType == readUByte(buf, off)
        length == readInt(buf, listType.off)
        list == readItems(buf, length.off, listType.v, length.v, <<>>)
    IN  IF ~listType.ok THEN ReadThrows
        ELSE IF ~length.ok THEN ReadThrows
        ELSE IF ~list.ok THEN ReadThrows
        ELSE Read([type |-> TypeName(listType.v), value |-> list.v], list.off)

\* the key that an assignment hands to the setter of Object.prototype
ProtoKey == <<"_", "_", "p", "r", "o", "t", "o", "_", "_">>

\* compound[name] = tag: replaces the entry of an existing key in place;
\* compound['__proto__'] = tag sets the prototype and adds no property
ObjectSet(obj, key, tag) ==
    IF key = ProtoKey THEN obj
    ELSE IF \E i \in 1..Len(obj) : obj[i][1] = key
    THEN [i \in 1..Len(obj) |->
             IF obj[i][1] = key THEN <<key, tag>> ELSE obj[i]]
    ELSE Append(obj, <<key, tag>>)

\* readTag() without arguments; the end tag has no name field
readTag(buf, off) ==
    LET type == readUByte(buf, off)
        name == readString(buf, type.off)
        value == readTagValue(buf, name.off, type.v)
    IN  IF ~type.ok THEN ReadThrows
        ELSE IF type.v = TAG_TYPES.end
        THEN Read([type |-> "end", value |-> "null"], type.off)
        ELSE IF ~name.ok THEN ReadThrows
        ELSE IF ~value.ok THEN ReadThrows
        ELSE Read([type |-> TypeName(type.v), name |-> name.v,
                   value |-> value.v], value.off)

readCompoundLoop(buf, off, compound) ==
    LET tag == readTag(buf, off) IN
    IF ~tag.ok THEN ReadThrows
    ELSE IF tag.v.type = "end" THEN Read(compound, tag.off)
    ELSE readCompoundLoop(buf, tag.off,
             ObjectSet(compound, tag.v.name,
                       [type |-> tag.v.type, value |-> tag.v.value]))

readCompound(buf, off) == readCompoundLoop(buf, off, <<>>)

readTagValue(buf, off, type) ==
    CASE type = TAG_TYPES.byte -> readByte(buf, off)
      [] type = TAG_TYPES.short -> readShort(buf, off)
      [] type = TAG_TYPES.int -> readInt(buf, off)
      [] type = TAG_TYPES.long -> readLong(buf, off)
      [] type = TAG_TYPES.float -> readFloat(buf, off)
      [] type = TAG_TYPES.double -> readDouble(buf, off)
      [] type = TAG_TYPES.byte_array -> readByteArray(buf, off)
      [] type = TAG_TYPES.string -> readString(buf, off)
      [] type = TAG_TYPES.list -> readList(buf, off)
      [] type = TAG_TYPES.compound -> readCompound(buf, off)
      [] type = TAG_TYPES.int_array -> readIntArray(buf, off)
      [] type = TAG_TYPES.long_array -> readLongArray(buf, off)
      [] OTHER -> ReadThrows

\* NBT.parse(buffer): [ok, v] with v the document
NBT_parse(buffer) ==
    LET tag == readTag(buffer, 0)
    IN  IF tag.ok THEN [ok |-> TRUE, v |-> tag.v]
        ELSE [ok |-> FALSE, v |-> "error"]

----------------------------------------------------------------------------
(* snbt-converter.js: number <-> text conversions of JavaScript            *)

DigitChars == <<"0", "1", "2", "3", "4", "5", "6", "7", "8", "9">>
Digits == {DigitChars[i] : i \in 1..10}
DigitValue(c) == (CHOOSE i \in 1..10 : DigitChars[i] = c) - 1
Letters == {Printable[i] : i \in 34..59} \cup {Printable[i] : i \in 66..91}
Whitespace == {" ", "\t", "\n", "\r", "U+0B", "U+0C"}

RECURSIVE NatToString(_)
NatToString(n) ==
    IF n < 10 THEN <<DigitChars[n + 1]>>
    ELSE NatToString(n \div 10) \o <<DigitChars[(n % 10) + 1]>>

\* `${value}` of an integer (Number or BigInt)
IntToString(n) == IF n < 0 THEN <<"-">> \o NatToString(-n) ELSE NatToString(n)

RECURSIVE Repeat(_, _)
Repeat(s, n) == IF n <= 0 THEN <<>> ELSE s \o Repeat(s, n - 1)

\* `${value}` of a Number m * 10^e (Number::toString, radix 10)
NumberToString(f) ==
    LET digits == NatToString(Abs(f.m))
        k == Len(digits)
        n == k + f.e
        sign == IF f.m < 0 THEN <<"-">> ELSE <<>>
        x == n - 1
        mantissa == IF k = 1 THEN digits
                    ELSE <<digits[1]>> \o <<".">> \o SubSeq(digits, 2, k)
    IN  IF f.m = 0 THEN <<"0">>
        ELSE IF k <= n /\ n <= 21
        THEN sign \o digits \o Repeat(<<"0">>, n - k)
        ELSE IF 0 < n /\ n <= 21
        THEN sign \o SubSeq(digits, 1, n) \o <<".">> \o SubSeq(digits, n + 1, k)
        ELSE IF -6 < n /\ n <= 0
        THEN sign \o <<"0", ".">> \o Repeat(<<"0">>, -n) \o digits
        ELSE sign \o mantissa \o <<"e">>
                 \o (IF x < 0 THEN <<"-">> ELSE <<"+">>) \o NatToString(Abs(x))

NaN == [nan |-> TRUE]

RECURSIVE DigitsValue(_, _)
DigitsValue(s, acc) ==
    IF s = <<>> THEN acc ELSE DigitsValue(Tail(s), acc * 10 + DigitValue(Head(s)))

RECURSIVE LeadingDigits(_)
LeadingDigits(s) ==
    IF s # <<>> /\ Head(s) \in Digits THEN <<Head(s)>> \o LeadingDigits(Tail(s))
    ELSE <<>>

Unsigned(s) == IF s # <<>> /\ Head(s) \in {"-", "+"} THEN Tail(s) ELSE s
Negative(s) == s # <<>> /\ Head(s) = "-"

\* parseInt(s): optional sign, then the leading digits; NaN without digits
ParseInt(s) ==
    LET ds == LeadingDigits(Unsigned(s)) IN
    IF ds = <<>> THEN NaN
    ELSE IF Negative(s) THEN -DigitsValue(ds, 0) ELSE DigitsValue(ds, 0)

RECURSIVE TrailingZeros(_)
TrailingZeros(ds) ==
    IF ds # <<>> /\ ds[Len(ds)] = "0"
    THEN 1 + TrailingZeros(SubSeq(ds, 1, Len(ds) - 1))
    ELSE 0

\* parseFloat(s): optional sign, digits, optional fraction; NaN without digits
ParseFloat(s) ==
    LET u == Unsigned(s)
        ip == LeadingDigits(u)
        rest == SubSeq(u, Len(ip) + 1, Len(u))
        fp == IF rest # <<>> /\ Head(rest) = "." THEN LeadingDigits(Tail(rest))
              ELSE <<>>
        ds == ip \o fp
        z == TrailingZeros(ds)
        m == DigitsValue(SubSeq(ds, 1, Len(ds) - z), 0)
    IN  IF ds = <<>> THEN NaN
        ELSE Normalise(IF Negative(s) THEN -m ELSE m, z - Len(fp))

\* BigInt(s): [ok, v]; '' is 0n, anything but an optional sign and digits throws
ToBigInt(s) ==
    LET u == Unsigned(s) IN
    IF s = <<>> THEN [ok |-> TRUE, v |-> 0]
    ELSE IF u = <<>> \/ LeadingDigits(u) # u THEN [ok |-> FALSE, v |-> 0]
    ELSE [ok |-> TRUE, v |-> ParseInt(s)]

----------------------------------------------------------------------------
(* snbt-converter.js: SNBTConverter.toSNBT *)

RECURSIVE Join(_, _)
Join(items, sep) ==
    IF items = <<>> THEN <<>>
    ELSE IF Len(items) = 1 THEN items[1]
    ELSE items[1] \o sep \o Join(Tail(items), sep)

\* value.replace(/\\/g, '\\\\').replace(/"/g, '\\"')
RECURSIVE Escape(_)
Escape(s) ==
    IF s = <<>> THEN <<>>
    ELSE (IF Head(s) = "\\" THEN <<"\\", "\\">>
          ELSE IF Head(s) = "\"" THEN <<"\\", "\"">>
          ELSE <<Head(s)>>) \o Escape(Tail(s))

\* /^[a-zA-Z_][a-zA-Z0-9_\-\.\+]*$/.test(key)
KeyChars == Letters \cup Digits \cup {"_", "-", ".", "+"}
IsPlainKey(key) ==
    /\ key # <<>>
    /\ key[1] \in Letters \cup {"_"}
    /\ \A i \in 1..Len(key) : key[i] \in KeyChars

Quoted(s) == <<"\"">> \o s \o <<"\"">>

RECURSIVE toSNBTText(_, _)
\* the text of a tag at indent >= 0
toSNBTText(nbtData, indent) ==
    LET type == nbtData.type
        value == nbtData.value
        indentStr == Repeat(<<" ", " ">>, indent)
        nextIndentStr == Repeat(<<" ", " ">>, indent + 1)
        Item(item) == toSNBTText(Tag(value.type, item), indent + 1)
        Entry(e) ==
            (IF IsPlainKey(e[1]) THEN e[1] ELSE Quoted(e[1]))
                \o <<":">> \o toSNBTText(e[2], indent + 1)
        ByteItem(v) == IntToString(v) \o <<"b">>
        LongItem(v) == IntToString(v) \o <<"L">>
        Indented(item) == nextIndentStr \o item
        Block(open, items, close, limit) ==
            IF \A i \in 1..Len(items) : Len(items[i]) < limit
            THEN open \o Join(items, <<",">>) \o close
            ELSE open \o <<"\n">> \o Join([i \in 1..Len(items) |-> Indented(items[i])], <<",", "\n">>)
                      \o <<"\n">> \o indentStr \o close
    IN  CASE type = "byte" -> IntToString(value) \o <<"b">>
          [] type = "short" -> IntToString(value) \o <<"s">>
          [] type = "int" -> IntToString(value)
          [] type = "long" -> IntToString(value) \o <<"L">>
          [] type = "float" -> NumberToString(value) \o <<"f">>
          [] type = "double" -> NumberToString(value) \o <<"d">>
          [] type = "string" -> Quoted(Escape(value))
          [] type = "byte_array" ->
                <<"[", "B", ";">> \o Join([i \in 1..Len(value) |-> ByteItem(value[i])], <<",">>) \o <<"]">>
          [] type = "int_array" ->
                <<"[", "I", ";">> \o Join([i \in 1..Len(value) |-> IntToString(value[i])], <<",">>) \o <<"]">>
          [] type = "long_array" ->
                <<"[", "L", ";">> \o Join([i \in 1..Len(value) |-> LongItem(value[i])], <<",">>) \o <<"]">>
          [] type = "list" ->
                IF Len(value.value) = 0 THEN <<"[", "]">>
                ELSE Block(<<"[">>, [i \in 1..Len(value.value) |-> Item(value.value[i])],
                           <<"]">>, 20)
          [] type = "compound" ->
                IF Len(value) = 0 THEN <<"{", "}">>
                ELSE Block(<<"{">>, [i \in 1..Len(value) |-> Entry(value[i])],
                           <<"}">>, 30)
          [] OTHER -> <<"n", "u", "l", "l">>

\* SNBTConverter.toSNBT(nbtData, indent): [ok, text]; '  '.repeat(indent)
\* throws a RangeError for a negative indent
toSNBT(nbtData, indent) ==
    IF indent < 0 THEN [ok |-> FALSE, text |-> <<>>]
    ELSE [ok |-> TRUE, text |-> toSNBTText(nbtData, indent)]

----------------------------------------------------------------------------
(* snbt-converter.js: class SNBTParser.  A parser step returns             *)
(* [ok, v, pos]; ok is FALSE when consume() or BigInt() throws.            *)

Parsed(v, pos) == [ok |-> TRUE, v |-> v, pos |-> pos]
ParseThrows == [ok |-> FALSE, v |-> "error", pos |-> 0]

\* snbtString.trim()
RECURSIVE TrimLeft(_)
TrimLeft(s) ==
    IF s # <<>> /\ Head(s) \in Whitespace THEN TrimLeft(Tail(s)) ELSE s

RECURSIVE TrimRight(_)
TrimRight(s) ==
    IF s # <<>> /\ s[Len(s)] \in Whitespace
    THEN TrimRight(SubSeq(s, 1, Len(s) - 1))
    ELSE s

Trim(s) == TrimRight(TrimLeft(s))

\* this.input[this.pos]; undefined past the end
peek(input, pos) == IF pos < Len(input) THEN input[pos + 1] ELSE "undefined"

\* consume(expected); expected = "" stands for no argument
consume(input, pos, expected) ==
    IF pos >= Len(input) THEN ParseThrows
    ELSE IF expected # "" /\ input[pos + 1] # expected THEN ParseThrows
    ELSE Parsed(input[pos + 1], pos + 1)

RECURSIVE skipWhitespace(_, _)
skipWhitespace(input, pos) ==
    IF pos < Len(input) /\ peek(input, pos) \in Whitespace
    THEN skipWhitespace(input, pos + 1)
    ELSE pos

Unescape(escaped) ==
    CASE escaped = "n" -> "\n"
      [] escaped = "t" -> "\t"
      [] escaped = "r" -> "\r"
      [] OTHER -> escaped

RECURSIVE parseStringLoop(_, _, _, _)
parseStringLoop(input, pos, quote, value) ==
    IF pos < Len(input) /\ peek(input, pos) # quote
    THEN IF peek(input, pos) = "\\"
         THEN LET escaped == consume(input, pos + 1, "") IN
              IF ~escaped.ok THEN ParseThrows
              ELSE parseStringLoop(input, escaped.pos, quote,
                                   Append(value, Unescape(escaped.v)))
         ELSE parseStringLoop(input, pos + 1, quote,
                              Append(value, peek(input, pos)))
    ELSE LET close == consume(input, pos, quote) IN
         IF ~close.ok THEN ParseThrows ELSE Parsed(value, close.pos)

parseString(input, pos) ==
    LET quote == consume(input, pos, "") IN
    IF ~quote.ok THEN ParseThrows
    ELSE parseStringLoop(input, quote.pos, quote.v, <<>>)

RECURSIVE parseKeyLoop(_, _, _)
parseKeyLoop(input, pos, key) ==
    IF pos < Len(input) /\ peek(input, pos) \in KeyChars
    THEN parseKeyLoop(input, pos + 1, Append(key, peek(input, pos)))
    ELSE Parsed(key, pos)

parseKey(input, pos0) ==
    LET pos == skipWhitespace(input, pos0) IN
    IF peek(input, pos) \in {"\"", "'"} THEN parseString(input, pos)
    ELSE parseKeyLoop(input, pos, <<>>)

RECURSIVE parseDigits(_, _, _)
\* while (... /[0-9.]/.test(this.peek())): [text, pos, dot]
parseDigits(input, pos, acc) ==
    IF pos < Len(input) /\ peek(input, pos) \in Digits \cup {"."}
    THEN parseDigits(input, pos + 1,
             [text |-> Append(acc.text, peek(input, pos)),
              dot |-> acc.dot \/ peek(input, pos) = "."])
    ELSE [text |-> acc.text, dot |-> acc.dot, pos |-> pos]

SuffixType(c) ==
    CASE c \in {"b", "B"} -> "byte"
      [] c \in {"s", "S"} -> "short"
      [] c \in {"l", "L"} -> "long"
      [] c \in {"f", "F"} -> "float"
      [] c \in {"d", "D"} -> "double"

parseNumber(input, pos) ==
    LET neg == peek(input, pos) = "-"
        ds == parseDigits(input, IF neg THEN pos + 1 ELSE pos,
                          [text |-> IF neg THEN <<"-">> ELSE <<>>,
                           dot |-> FALSE])
        value == ds.text
        hasSuffix == ds.pos < Len(input)
                        /\ peek(input, ds.pos) \in
                              {"b", "s", "l", "f", "d", "B", "S", "L", "F", "D"}
        type == IF hasSuffix THEN SuffixType(peek(input, ds.pos))
                ELSE IF ds.dot THEN "double" ELSE "int"
        end == IF hasSuffix THEN ds.pos + 1 ELSE ds.pos
    IN  CASE type \in {"byte", "short", "int"} ->
                Parsed(Tag(type, ParseInt(value)), end)
          [] type = "long" ->
                IF ToBigInt(value).ok
                THEN Parsed(Tag(type, ToBigInt(value).v), end)
                ELSE ParseThrows
          [] OTHER -> Parsed(Tag(type, ParseFloat(value)), end)

RECURSIVE parseValue(_, _)
RECURSIVE parseCompoundLoop(_, _, _)
RECURSIVE parseListLoop(_, _, _, _)
RECURSIVE parseTypedArray(_, _, _)

\* while (this.peek() !== ']') { ... }
parseTypedArray(input, pos0, items) ==
    LET pos == skipWhitespace(input, pos0) IN
    IF peek(input, pos) = "]" THEN Parsed(items, pos)
    ELSE LET value == parseNumber(input, pos)
             after == skipWhitespace(input, value.pos)
             comma == consume(input, after, ",")
         IN  IF ~value.ok THEN ParseThrows
             ELSE IF peek(input, after) = "]"
             THEN Parsed(Append(items, value.v.value), after)
             ELSE IF ~comma.ok THEN ParseThrows
             ELSE parseTypedArray(input, comma.pos,
                                  Append(items, value.v.value))

parseListLoop(input, pos0, listType, items) ==
    LET item == parseValue(input, skipWhitespace(input, pos0))
        type == IF listType = "null" THEN item.v.type ELSE listType
        after == skipWhitespace(input, item.pos)
        comma == consume(input, after, ",")
    IN  IF ~item.ok THEN ParseThrows
        ELSE IF peek(input, after) = "]"
        THEN Parsed(Tag("list", Tag(type, Append(items, item.v.value))),
                    after + 1)
        ELSE IF ~comma.ok THEN ParseThrows
        ELSE parseListLoop(input, comma.pos, type, Append(items, item.v.value))

parseArray(input, pos0) ==
    LET open == consume(input, pos0, "[")
        pos == skipWhitespace(input, open.pos)
        semi == consume(input, pos + 1, ";")
        array == parseTypedArray(input, semi.pos, <<>>)
        close == consume(input, array.pos, "]")
        type == peek(input, pos)
    IN  IF ~open.ok THEN ParseThrows
        ELSE IF type \in {"B", "I", "L"}
        THEN IF ~semi.ok THEN ParseThrows
             ELSE IF ~array.ok THEN ParseThrows
             ELSE IF ~close.ok THEN ParseThrows
             ELSE Parsed(Tag(CASE type = "B" -> "byte_array"
                               [] type = "I" -> "int_array"
                               [] type = "L" -> "long_array", array.v),
                         close.pos)
        ELSE IF peek(input, pos) = "]"
        THEN Parsed(Tag("list", Tag("byte", <<>>)), pos + 1)
        ELSE parseListLoop(input, pos, "null", <<>>)

parseCompoundLoop(input, pos0, compound) ==
    LET key == parseKey(input, skipWhitespace(input, pos0))
        colon == consume(input, skipWhitespace(input, key.pos), ":")
        value == parseValue(input, skipWhitespace(input, colon.pos))
        after == skipWhitespace(input, value.pos)
        comma == consume(input, after, ",")
        next == ObjectSet(compound, key.v, value.v)
    IN  IF ~key.ok THEN ParseThrows
        ELSE IF ~colon.ok THEN ParseThrows
        ELSE IF ~value.ok THEN ParseThrows
        ELSE IF peek(input, after) = "}"
        THEN Parsed(Tag("compound", next), after + 1)
        ELSE IF ~comma.ok THEN ParseThrows
        ELSE parseCompoundLoop(input, comma.pos, next)

parseCompound(input, pos0) ==
    LET open == consume(input, pos0, "{")
        pos == skipWhitespace(input, open.pos)
    IN  IF ~open.ok THEN ParseThrows
        ELSE IF peek(input, pos) = "}"
        THEN Parsed(Tag("compound", <<>>), pos + 1)
        ELSE parseCompoundLoop(input, pos, <<>>)

parseValue(input, pos0) ==
    LET pos == skipWhitespace(input, pos0)
        char == peek(input, pos)
        str == parseString(input, pos)
    IN  IF char = "{" THEN parseCompound(input, pos)
        ELSE IF char = "[" THEN parseArray(input, pos)
        ELSE IF char \in {"\"", "'"}
        THEN IF str.ok THEN Parsed(Tag("string", str.v), str.pos)
             ELSE ParseThrows
        ELSE parseNumber(input, pos)

\* SNBTConverter.fromSNBT(snbtString): [ok, v]
fromSNBT(snbtString) ==
    LET input == Trim(snbtString)
        tag == parseValue(input, skipWhitespace(input, 0))
    IN  IF tag.ok THEN [ok |-> TRUE, v |-> tag.v]
        ELSE [ok |-> FALSE, v |-> "error"]

----------------------------------------------------------------------------
(* mca-handler.js: the containers of an MCAFile and of a region file.      *)
(*                                                                         *)
(*   Map            sequence of [key |-> <<x, z>>, data |-> chunk] in      *)
(*                  insertion order (the key "x,z" as the pair <<x, z>>)   *)
(*   chunk          [doc |-> document, bulk |-> n, id |-> instance]: the   *)
(*                  object held for a slot; bulk is the number of bytes    *)
(*                  that the part of the chunk left out of the modelled    *)
(*                  tree adds to its deflated form; id tells apart the     *)
(*                  objects made by different asynchronous reads (0 for    *)
(*                  an object of the caller or of an eager load)           *)
(*   Array(1024)    function from the indices holding a non-default value  *)
(*                  (locations: not null, timestamps: not 0)               *)
(*   Buffer (file)  [size, loc, ts, blobs]: length in bytes, the non-zero  *)
(*                  words of the two header tables by index, and the       *)
(*                  chunk blobs by byte offset; every other byte is zero   *)
(*                                                                         *)
(* CHOOSE r \in {e(x) : x \in {v}} : TRUE is e(v), with v computed once.   *)
(***************************************************************************)

SECTOR_SIZE == 4096
HEADER_SIZE == 4096

Put(f, i, v) == [j \in DOMAIN f \cup {i} |-> IF j = i THEN v ELSE f[j]]
Remove(f, i) == [j \in DOMAIN f \ {i} |-> f[j]]
Empty == [j \in {} |-> 0]

\* array[i] of a zero-filled number array
At(f, i) == IF i \in DOMAIN f THEN f[i] ELSE 0
\* array[i] = v for a number array (0 is the default)
Store(f, i, v) == IF v = 0 THEN Remove(f, i) ELSE Put(f, i, v)

MapKeys(m) == {m[i].key : i \in 1..Len(m)}
MapHas(m, key) == key \in MapKeys(m)
MapIndex(m, key) == CHOOSE i \in 1..Len(m) : m[i].key = key
MapGet(m, key) == m[MapIndex(m, key)].data
MapSet(m, key, data) ==
    IF MapHas(m, key)
    THEN [i \in 1..Len(m) |->
             IF m[i].key = key THEN [key |-> key, data |-> data] ELSE m[i]]
    ELSE Append(m, [key |-> key, data |-> data])
MapDelete(m, key) ==
    LET Other(entry) == entry.key # key IN SelectSeq(m, Other)

Chunk(d, bulk, id) == [doc |-> d, bulk |-> bulk, id |-> id]

\* x % 32 of JavaScript: the remainder has the sign of x
Remainder32(x) == IF x >= 0 THEN x % 32 ELSE 0 - ((0 - x) % 32)

\* x & 31: the low five bits of the two's-complement form of x
And31(x) ==
    (x % 2) + 2 * ((x \div 2) % 2) + 4 * ((x \div 4) % 2)
        + 8 * ((x \div 8) % 2) + 16 * ((x \div 16) % 2)

\* a | b for non-negative a, b
RECURSIVE BitOr(_, _)
BitOr(a, b) ==
    IF a = 0 THEN b
    ELSE IF b = 0 THEN a
    ELSE (IF a % 2 = 1 \/ b % 2 = 1 THEN 1 ELSE 0)
             + 2 * BitOr(a \div 2, b \div 2)

\* (startSector << 8) | sectorCount
LocationWord(startSector, sectorCount) == BitOr(startSector * 256, sectorCount)
\* (locationData >> 8) & 0xFFFFFF and locationData & 0xFF
SectorOffset(locationData) == (locationData \div 256) % 16777216
SectorCount(locationData) == locationData % 256

\* Math.ceil(totalSize / SECTOR_SIZE)
CeilDiv(a, b) == (a + b - 1) \div b

Index(x, z) == z * 32 + x

----------------------------------------------------------------------------
(* zlib as used by the archive.  Compressed data is [alg, raw, bulk]: the  *)
(* algorithm that made it ("zlib", "gzip", "none" for stored bytes, "junk" *)
(* for bytes no algorithm accepts), the bytes it decompresses to and the   *)
(* chunk's bulk.                                                           *)

deflateSync(nbtBuffer, bulk) == [alg |-> "zlib", raw |-> nbtBuffer, bulk |-> bulk]

\* compressedData.length
DataLength(data) == Len(data.raw) + data.bulk

\* zlib.inflateSync / zlib.gunzipSync: [ok, data]
inflateSync(data) == [ok |-> data.alg = "zlib", data |-> data]
gunzipSync(data) == [ok |-> data.alg = "gzip", data |-> data]

\* buffer.slice(chunkDataStart, chunkDataEnd) of a blob: only the whole
\* payload is data its algorithm accepts
Slice(blob, length) ==
    IF length = DataLength(blob.data) THEN blob.data
    ELSE [alg |-> "junk", raw |-> <<>>, bulk |-> length]

----------------------------------------------------------------------------
(* mca-handler.js: class MCAFile, reading.  The files read are those in    *)
(* which a location entry points at the start of a blob, at zero bytes or  *)
(* past the end of the file, and in which a length field larger than its   *)
(* payload reaches past the end of the file.                               *)

\* a stored payload handed to NBT.parse as it is: 78 9C opens a zlib
\* stream, 1F 8B a gzip stream
StoredData(data) ==
    CASE data.alg = "zlib" -> [alg |-> "none", raw |-> <<120, 156>>, bulk |-> 0]
      [] data.alg = "gzip" -> [alg |-> "none", raw |-> <<31, 139>>, bulk |-> 0]
      [] OTHER -> data

ZeroBlob ==
    [length |-> 0, ctype |-> 0,
     data |-> [alg |-> "none", raw |-> <<>>, bulk |-> 0]]

\* the five header bytes and the payload found at byteOffset
BlobAt(buffer, byteOffset) ==
    IF byteOffset \in DOMAIN buffer.blobs THEN buffer.blobs[byteOffset]
    ELSE ZeroBlob

Returns(v) == [ok |-> TRUE, null |-> FALSE, v |-> v, error |-> ""]
ReturnsNull == [ok |-> TRUE, null |-> TRUE, v |-> "null", error |-> ""]
Throws(error) == [ok |-> FALSE, null |-> FALSE, v |-> "error", error |-> error]

\* readChunk(buffer, location); id names the object NBT.parse makes
readChunk(buffer, location, id) ==
    LET byteOffset == location.offset * SECTOR_SIZE
        blob == BlobAt(buffer, byteOffset)
        length == blob.length
        compressionType == blob.ctype
        chunkDataStart == byteOffset + 5
        chunkDataEnd == chunkDataStart + length - 1
        compressedData == Slice(blob, length - 1)
        decompressedData ==
            CASE compressionType = 1 -> gunzipSync(compressedData)
              [] compressionType = 2 -> inflateSync(compressedData)
              [] OTHER -> [ok |-> TRUE, data |-> StoredData(compressedData)]
        parsed == NBT_parse(decompressedData.data.raw)
    IN  IF byteOffset + 5 > buffer.size
        THEN Throws("Chunk offset beyond file bounds")
        ELSE IF length = 0 THEN ReturnsNull
        ELSE IF chunkDataEnd > buffer.size
        THEN Throws("Chunk data extends beyond file bounds")
        ELSE IF compressionType \notin {1, 2, 3}
        THEN Throws("Unknown compression type")
        ELSE IF ~decompressedData.ok THEN Throws("zlib")
        ELSE IF ~parsed.ok THEN Throws("NBT.parse")
        ELSE Returns(Chunk(parsed.v, decompressedData.data.bulk, id))

\* parseFile, first loop: the location header
parseLocations(buffer) ==
    [i \in {j \in DOMAIN buffer.loc :
               /\ SectorOffset(buffer.loc[j]) # 0
               /\ SectorCount(buffer.loc[j]) # 0} |->
        [offset |-> SectorOffset(buffer.loc[i]),
         count |-> SectorCount(buffer.loc[i])]]

\* parseFile, second loop: the timestamp header
parseTimestamps(buffer) == buffer.ts

\* the indices of S in the order of for (let i = 0; i < 1024; i++)
Ascending(S) ==
    [p \in 1..Cardinality(S) |->
        CHOOSE i \in S : Cardinality({j \in S : j < i}) = p - 1]

Warning(x, z, error) == [x |-> x, z |-> z, error |-> error]

\* parseFile, third loop: what readChunk does for each populated index
ChunkReads(buffer) ==
    LET locations_ == parseLocations(buffer)
        indices == Ascending(DOMAIN locations_)
    IN  [p \in 1..Len(indices) |->
            [x |-> indices[p] % 32, z |-> indices[p] \div 32,
             chunkData |-> readChunk(buffer, locations_[indices[p]], 0)]]

\* the third loop with its try around the loop: the first failure ends it
parseChunksUntilThrow(reads) ==
    LET Failed(r) == ~r.chunkData.ok
        Before(p) == \A q \in 1..(p - 1) : reads[q].chunkData.ok
        reached == {p \in 1..Len(reads) : Before(p)}
        Set(r) == r.chunkData.ok /\ ~r.chunkData.null
        done == SubSeq(reads, 1, Cardinality(reached))
        set == SelectSeq(done, Set)
        failed == SelectSeq(done, Failed)
    IN  [chunks |-> [k \in 1..Len(set) |->
                        [key |-> <<set[k].x, set[k].z>>,
                         data |-> set[k].chunkData.v]],
         warnings |-> [k \in 1..Len(failed) |->
                          Warning(failed[k].x, failed[k].z,
                                  failed[k].chunkData.error)]]

\* parseFile, third loop, with its try inside the loop: the chunks set
\* and the warnings given, from the reads
parseChunks(reads) ==
    LET Set(r) == r.chunkData.ok /\ ~r.chunkData.null
        Failed(r) == ~r.chunkData.ok
        set == SelectSeq(reads, Set)
        failed == SelectSeq(reads, Failed)
    IN  [chunks |-> [k \in 1..Len(set) |->
                        [key |-> <<set[k].x, set[k].z>>,
                         data |-> set[k].chunkData.v]],
         warnings |-> [k \in 1..Len(failed) |->
                          Warning(failed[k].x, failed[k].z,
                                  failed[k].chunkData.error)]]

\* parseFile on a new MCAFile: [chunks, locations, timestamps, warnings]
parseFile(buffer) ==
    CHOOSE mca \in
        {[chunks |-> read.chunks, locations |-> parseLocations(buffer),
          timestamps |-> parseTimestamps(buffer), warnings |-> read.warnings] :
            read \in {parseChunks(ChunkReads(buffer))}} : TRUE

----------------------------------------------------------------------------
(* mca-handler.js: class MCAFile, the chunk operations and the writer      *)

getChunk(chunks_, x, z) ==
    LET key == <<And31(x), And31(z)>>
    IN  IF MapHas(chunks_, key)
        THEN [found |-> TRUE, data |-> MapGet(chunks_, key)]
        ELSE [found |-> FALSE, data |-> "undefined"]

\* setChunk without its last two lines, the timestamp left as it is
setChunkUnstamped(chunks_, timestamps_, x, z, chunkData, clock) ==
    [chunks |-> MapSet(chunks_, <<And31(x), And31(z)>>, chunkData),
     timestamps |-> timestamps_]

\* setChunk: [chunks, timestamps]
setChunk(chunks_, timestamps_, x, z, chunkData, clock) ==
    LET regionX == And31(x)
        regionZ == And31(z)
    IN  [chunks |-> MapSet(chunks_, <<regionX, regionZ>>, chunkData),
         timestamps |-> Store(timestamps_, Index(regionX, regionZ), clock)]

\* removeChunk: [chunks, locations, timestamps, returned]
removeChunk(chunks_, locations_, timestamps_, x, z) ==
    LET regionX == And31(x)
        regionZ == And31(z)
        key == <<regionX, regionZ>>
        index == Index(regionX, regionZ)
    IN  IF MapHas(chunks_, key)
        THEN [chunks |-> MapDelete(chunks_, key),
              locations |-> Remove(locations_, index),
              timestamps |-> Remove(timestamps_, index),
              returned |-> TRUE]
        ELSE [chunks |-> chunks_, locations |-> locations_,
              timestamps |-> timestamps_, returned |-> FALSE]

\* createMCABuffer, first loop: sectorsNeeded of a chunk
sectorsNeeded(data) ==
    CeilDiv(DataLength(deflateSync(NBT_stringify(data.doc).bytes, data.bulk))
                + 5, SECTOR_SIZE)

\* createMCABuffer, first loop: currentSector when it reaches entry k
RECURSIVE currentSector(_, _)
currentSector(entries, k) ==
    IF k = 1 THEN 2
    ELSE currentSector(entries, k - 1) + sectorsNeeded(entries[k - 1].data)

\* createMCABuffer, first loop: the chunkSectors list
chunkSectors(entries) ==
    [k \in 1..Len(entries) |->
        [index |-> Index(entries[k].key[1], entries[k].key[2]),
         compressedData |-> deflateSync(NBT_stringify(entries[k].data.doc).bytes,
                                        entries[k].data.bulk),
         startSector |-> currentSector(entries, k),
         sectorCount |-> sectorsNeeded(entries[k].data)]]

\* buffer.writeUInt32BE(value, offset) throws unless the four bytes fit
FitsUInt32(size, offset) == offset >= 0 /\ offset + 4 <= size

\* the chunkInfo that is the last one written at index i
LastAt(list, i) ==
    list[CHOOSE k \in 1..Len(list) :
             /\ list[k].index = i
             /\ \A j \in (k + 1)..Len(list) : list[j].index # i]

\* createMCABuffer from Buffer.alloc on: the three writing loops
writeBuffer(list, timestamps_, clock) ==
    LET totalSectors ==
            IF list = <<>> THEN 2
            ELSE list[Len(list)].startSector + list[Len(list)].sectorCount
        totalSize == totalSectors * SECTOR_SIZE
        indices == {list[k].index : k \in 1..Len(list)}
    IN  [ok |-> \A i \in indices : FitsUInt32(totalSize, i * 4),
         size |-> totalSize,
         loc |-> [i \in indices |->
                     LocationWord(LastAt(list, i).startSector,
                                  LastAt(list, i).sectorCount)],
         ts |-> [i \in indices |->
                    IF At(timestamps_, i) # 0 THEN At(timestamps_, i)
                    ELSE clock],
         blobs |-> [offset \in {list[k].startSector * SECTOR_SIZE :
                                    k \in 1..Len(list)} |->
                       LET chunkInfo ==
                               list[CHOOSE k \in 1..Len(list) :
                                        list[k].startSector * SECTOR_SIZE
                                            = offset]
                       IN  [length |-> DataLength(chunkInfo.compressedData) + 1,
                            ctype |-> 2,
                            data |-> chunkInfo.compressedData]]]

\* Buffer.alloc(totalSize), with the flag of a throw while it is filled
Alloc(totalSize) ==
    [ok |-> TRUE, size |-> totalSize, loc |-> Empty, ts |-> Empty,
     blobs |-> Empty]

\* fromJSON, first loop: mca.setChunk(x, z, data) for the entries of
\* jsonData.chunks in their order
RECURSIVE setChunks(_, _, _, _)
setChunks(chunks_, timestamps_, entries, clock) ==
    IF entries = <<>> THEN [chunks |-> chunks_, timestamps |-> timestamps_]
    ELSE CHOOSE r \in
             {setChunks(set.chunks, set.timestamps, Tail(entries), clock) :
                 set \in {setChunk(chunks_, timestamps_, entries[1].key[1],
                                   entries[1].key[2], entries[1].data,
                                   clock)}} : TRUE

\* fromJSON, second loop: mca.timestamps[z * 32 + x] = timestamp
RECURSIVE setTimestamps(_, _)
setTimestamps(timestamps_, entries) ==
    IF entries = <<>> THEN timestamps_
    ELSE setTimestamps(Store(timestamps_,
                             Index(entries[1].key[1], entries[1].key[2]),
                             entries[1].timestamp),
                       Tail(entries))

\* MCAFile.fromJSON on a new MCAFile: [chunks, locations, timestamps]
fromJSON(jsonData, clock) ==
    CHOOSE r \in
        {[chunks |-> set.chunks, locations |-> Empty,
          timestamps |-> setTimestamps(set.timestamps, jsonData.timestamps)] :
            set \in {setChunks(<<>>, Empty, jsonData.chunks, clock)}} : TRUE

\* createMCABuffer: [ok, size, loc, ts, blobs]
createMCABuffer(chunks_, timestamps_, clock) ==
    IF \E k \in 1..Len(chunks_) : ~NBT_stringify(chunks_[k].data.doc).ok
    THEN [Alloc(0) EXCEPT !.ok = FALSE]
    ELSE CHOOSE made \in {writeBuffer(list, timestamps_, clock) :
                             list \in {chunkSectors(chunks_)}} : TRUE

\* the content of a file: a buffer without the flag
File(buffer) ==
    [size |-> buffer.size, loc |-> buffer.loc, ts |-> buffer.ts,
     blobs |-> buffer.blobs]

\* createMCABufferAsync: the chunks are compressed by tasks of their own,
\* Promise.all keeps their order and the buffer is built as createMCABuffer
\* builds it
createMCABufferAsync(chunks_, timestamps_, clock) ==
    createMCABuffer(chunks_, timestamps_, clock)

\* a writer that writes whatever buffer it is handed
saveAnyway(target, buffer) == File(buffer)

\* save, saveAsync: the content of the target afterwards; fs.writeFile runs
\* only when createMCABuffer / createMCABufferAsync has returned
save(target, buffer) == IF buffer.ok THEN File(buffer) ELSE target

----------------------------------------------------------------------------
(* Structural equality of tags: same variant, same list element variant    *)
(* and same payload at every node, compound entries in property order.     *)

RECURSIVE PayloadEquals(_, _, _)
PayloadEquals(type, a, b) ==
    CASE type = "list" ->
            /\ a.type = b.type
            /\ Len(a.value) = Len(b.value)
            /\ \A i \in 1..Len(a.value) :
                   PayloadEquals(a.type, a.value[i], b.value[i])
      [] type = "compound" ->
            /\ Len(a) = Len(b)
            /\ \A i \in 1..Len(a) :
                   /\ a[i][1] = b[i][1]
                   /\ a[i][2].type = b[i][2].type
                   /\ PayloadEquals(a[i][2].type, a[i][2].value, b[i][2].value)
      [] OTHER -> a = b

TagEquals(a, b) == a.type = b.type /\ PayloadEquals(a.type, a.value, b.value)

DocumentEquals(a, b) ==
    /\ "name" \in DOMAIN a
    /\ "name" \in DOMAIN b
    /\ a.name = b.name
    /\ TagEquals(a, b)

----------------------------------------------------------------------------
(* Documents the binary codec is run on.  The fixed ones are kept in a     *)
(* tuple, the generated ones are lists of up to MaxListLen payloads.       *)

MaxListLen == 2


SmallCompound == << <<(<<"a">>), Tag("byte", 1)>> >>

FixedTags ==
    << Tag("byte", -128), Tag("byte", 0), Tag("byte", 127),
       Tag("short", -32768), Tag("short", 300),
       Tag("int", -1), Tag("int", 42),
       Tag("long", -7), Tag("long", 5),
       Tag("float", Float(0, 0)), Tag("float", Float(15, -1)),
       Tag("float", Float(-25, -1)),
       Tag("double", Float(5, -1)), Tag("double", Float(3, 0)),
       Tag("string", <<>>), Tag("string", <<"H", "i">>),
       Tag("string", <<EAcute>>),
       Tag("compound", <<>>),
       Tag("compound", << <<(<<"H", "e", "l", "l", "o">>), Tag("int", 42)>> >>),
       Tag("compound",
           << <<(<<"a">>), Tag("byte", 1)>>,
              <<(<<"b">>), Tag("list", Tag("short", <<7>>))>> >>),
       Tag("compound", << <<(<<"L">>), Tag("list", Tag("byte", <<>>))>> >>),
       Tag("compound", << <<(<<"n">>), Tag("compound", SmallCompound)>> >>) >>

ElementTypes == {TYPE_NAMES[i] : i \in 1..12}

\* payloads of each element type, for building lists and typed arrays
PayloadsOf(t) ==
    CASE t = "byte" -> {-1, 5}
      [] t = "short" -> {300}
      [] t = "int" -> {42}
      [] t = "long" -> {-7}
      [] t = "float" -> {Float(15, -1)}
      [] t = "double" -> {Float(3, 0)}
      [] t = "byte_array" -> {<<1>>}
      [] t = "string" -> {<<"H", "i">>}
      [] t = "list" -> {Tag("int", <<1>>), Tag("int", <<>>)}
      [] t = "compound" -> {SmallCompound, <<>>}
      [] t = "int_array" -> {<<3>>}
      [] t = "long_array" -> {<<-8>>}

ArrayTypes == {"byte_array", "int_array", "long_array"}
ArrayElement(t) ==
    CASE t = "byte_array" -> "byte"
      [] t = "int_array" -> "int"
      [] t = "long_array" -> "long"

OuterNames == {<<>>, <<"L", "v">>}

\* d is one of the documents of the bounded domain
IsTbfDocument(d) ==
    \E n \in OuterNames :
        \/ \E i \in 1..Len(FixedTags) : d = Named(FixedTags[i], n)
        \/ \E t \in ElementTypes, k \in 0..MaxListLen :
              \E v \in [1..k -> PayloadsOf(t)] :
                  d = Named(Tag("list", Tag(t, v)), n)
        \/ \E t \in ArrayTypes, k \in 0..MaxListLen :
              \E v \in [1..k -> PayloadsOf(ArrayElement(t))] :
                  d = Named(Tag(t, v), n)

----------------------------------------------------------------------------
(* The binary codec run on one document: NBT.stringify, then NBT.parse *)

None == [ok |-> FALSE, v |-> "none"]

\* new MCAFile(), and nothing done on it yet
NewArchive ==
    /\ chunks = <<>>
    /\ locations = Empty
    /\ timestamps = Empty
    /\ heldBuffer = [set |-> FALSE]
    /\ console = <<>>
    /\ last = [op |-> "new"]
    /\ written = [known |-> FALSE]
    /\ steps = 0

\* the codec is run without an archive
Idle == [op |-> "idle"]
NoArchive == NewArchive /\ tasks = Idle /\ disk = Alloc(0) /\ now = 1

InitTBF ==
    /\ pc = "in"
    /\ IsTbfDocument(doc)
    /\ wire = None
    /\ back = None
    /\ NoArchive

Stringify ==
    /\ pc = "in"
    /\ wire' = NBT_stringify(doc)
    /\ pc' = "emitted"
    /\ UNCHANGED <<doc, back>>
    /\ UNCHANGED archiveVars

Parse ==
    /\ pc = "emitted"
    /\ wire.ok
    /\ back' = NBT_parse(wire.bytes)
    /\ pc' = "parsed"
    /\ UNCHANGED <<doc, wire>>
    /\ UNCHANGED archiveVars

NextTBF == Stringify \/ Parse

vars == <<codecVars, archiveVars>>

SpecTBF == InitTBF /\ [][NextTBF]_vars

\* C1: for every valid document d, NBT.parse(NBT.stringify(d)) is
\* structurally equal to d (outer name, variant, list element variant and
\* payload at every node), lists of length 0 included.
TbfRoundTrip ==
    pc = "parsed" => back.ok /\ DocumentEquals(back.v, doc)

----------------------------------------------------------------------------
(* The binary codec on the wire: the bytes of NBT.stringify are parsed and *)
(* written again, or lose their last bytes before they are parsed, and     *)
(* NBT.parse is handed bytes that another writer of the format produced.   *)

MaxCut == 8

\* a string of n one-byte characters
LongString(n) == <<>> \o [i \in 1..n |-> "a"]

\* the encoded lengths of the strings: short ones, and the ones around the
\* largest signed and the largest unsigned 16-bit number
StringLengths == {0, 1, 2, 300, 32767, 32768, 65535}

\* compounds of several keys, also with a key named __proto__
WireTags ==
    << Tag("compound",
           << <<(<<"x">>), Tag("int", 1)>>,
              <<(<<"y">>), Tag("list", Tag("int", <<>>))>>,
              <<(<<"z">>), Tag("string", <<"H", "i">>)>> >>),
       Tag("compound", << <<ProtoKey, Tag("byte", 1)>> >>),
       Tag("compound",
           << <<(<<"a">>), Tag("byte", 1)>>,
              <<ProtoKey, Tag("compound", SmallCompound)>> >>) >>

\* d is a string payload or a tag name of one of the lengths
IsStringDocument(d) ==
    \/ /\ d.type = "string"
       /\ d.name = <<>>
       /\ Len(d.value) \in StringLengths
       /\ d.value = LongString(Len(d.value))
    \/ /\ d.type = "byte"
       /\ d.value = 1
       /\ Len(d.name) \in StringLengths
       /\ d.name = LongString(Len(d.name))

IsWireDocument(d) ==
    \/ IsTbfDocument(d)
    \/ \E n \in StringLengths :
          \/ d = Named(Tag("string", LongString(n)), <<>>)
          \/ d = Named(Tag("byte", 1), LongString(n))
    \/ \E n \in OuterNames, i \in 1..Len(WireTags) : d = Named(WireTags[i], n)

\* the bytes of a string document in the format: type id, name and payload,
\* every string as its length in two bytes, big-endian, and its bytes
Conforming(d) ==
    <<TypeId(d.type)>> \o BE16(Len(Utf8Encode(d.name))) \o Utf8Encode(d.name)
        \o (IF d.type = "string"
            THEN BE16(Len(Utf8Encode(d.value))) \o Utf8Encode(d.value)
            ELSE <<d.value % 256>>)

InitWire ==
    /\ pc = "in"
    /\ IsWireDocument(doc)
    /\ wire = None
    /\ back = None
    /\ NoArchive

\* NBT.stringify(NBT.parse(buffer)) for the buffer that NBT.stringify made
Reencode ==
    /\ pc = "parsed"
    /\ back.ok
    /\ wire' = [ok |-> wire.ok, bytes |-> wire.bytes,
                again |-> NBT_stringify(back.v)]
    /\ pc' = "reemitted"
    /\ UNCHANGED <<doc, back>>
    /\ UNCHANGED archiveVars

\* the buffer loses its last k bytes
Truncate ==
    /\ pc = "emitted"
    /\ wire.ok
    /\ \E k \in 1..MaxCut :
           /\ k <= Len(wire.bytes)
           /\ wire' = [ok |-> TRUE,
                       bytes |-> SubSeq(wire.bytes, 1, Len(wire.bytes) - k)]
    /\ pc' = "cut"
    /\ UNCHANGED <<doc, back>>
    /\ UNCHANGED archiveVars

\* NBT.parse of the shortened buffer
ParseCut ==
    /\ pc = "cut"
    /\ back' = NBT_parse(wire.bytes)
    /\ pc' = "parsed_cut"
    /\ UNCHANGED <<doc, wire>>
    /\ UNCHANGED archiveVars

\* a string document arrives as another writer of the format wrote it
Receive ==
    /\ pc = "in"
    /\ IsStringDocument(doc)
    /\ wire' = [ok |-> TRUE, bytes |-> Conforming(doc)]
    /\ pc' = "received"
    /\ UNCHANGED <<doc, back>>
    /\ UNCHANGED archiveVars

\* NBT.parse of the bytes that arrived
ParseReceived ==
    /\ pc = "received"
    /\ back' = NBT_parse(wire.bytes)
    /\ pc' = "parsed_received"
    /\ UNCHANGED <<doc, wire>>
    /\ UNCHANGED archiveVars

NextWire ==
    \/ Stringify
    \/ Parse
    \/ Reencode
    \/ Truncate
    \/ ParseCut
    \/ Receive
    \/ ParseReceived

SpecWire == InitWire /\ [][NextWire]_vars

\* C14: the writer emits every empty list, whatever its element variant, as
\* the element id 0 and the 32-bit length 0, and the reader returns for that
\* form an empty list of the element variant byte.
EmptyListWireForm ==
    (doc.type = "list" /\ Len(doc.value.value) = 0) =>
        /\ pc = "emitted" =>
               /\ wire.ok
               /\ wire.bytes = <<TAG_TYPES.list>>
                       \o BE16(Len(Utf8Encode(doc.name)))
                       \o Utf8Encode(doc.name) \o <<0, 0, 0, 0, 0>>
        /\ pc = "parsed" =>
               /\ back.ok
               /\ back.v.type = "list"
               /\ back.v.value.type = "byte"
               /\ back.v.value.value = <<>>

\* C15: for every valid document d, NBT.stringify(NBT.parse(NBT.stringify(d)))
\* is NBT.stringify(d) byte for byte, also with empty lists of another
\* element variant than byte and with compounds of several keys.
IdempotentEncode ==
    /\ (pc = "parsed" /\ ~IsStringDocument(doc)) => back.ok
    /\ pc = "reemitted" => wire.again.ok /\ wire.again.bytes = wire.bytes

\* C16: NBT.parse of a buffer that ends before the document is complete
\* fails and returns no document.
TruncationIsError ==
    pc = "parsed_cut" => ~back.ok

\* C17: a string of n encoded bytes, 0 <= n <= 65535, is written as n in
\* two bytes, big-endian, and its n bytes, and the reader takes the two
\* bytes as an unsigned number, returns the n bytes and is n + 2 further.
StringLengthPrefix ==
    /\ (pc = "emitted" /\ IsStringDocument(doc)) =>
           wire.ok /\ wire.bytes = Conforming(doc)
    /\ pc = "parsed_received" =>
           /\ back.ok
           /\ back.v.type = doc.type
           /\ back.v.name = doc.name
           /\ back.v.value = doc.value
           /\ readTag(wire.bytes, 0).off = Len(wire.bytes)

----------------------------------------------------------------------------
(* The text codec run on one tag: SNBTConverter.toSNBT, then fromSNBT *)

StfTags ==
    << Tag("float", Float(1, 21)), Tag("double", Float(15, 20)),
       Tag("double", Float(1, -7)), Tag("float", Float(-125, -2)),
       Tag("double", Float(1, 20)), Tag("double", Float(1, -6)),
       Tag("string", <<"a", "\"", "b">>), Tag("string", <<"\\", "n">>),
       Tag("string", <<"x", "\n", "\t", "y">>), Tag("string", <<"'", " ">>),
       Tag("compound", << <<(<<"a", " ", "b">>), Tag("int", 1)>> >>),
       Tag("compound", << <<(<<>>), Tag("short", 2)>> >>),
       Tag("compound", << <<(<<"1", "x">>), Tag("long", 3)>> >>),
       Tag("compound", << <<(<<"a", "\"", "b">>), Tag("byte", 1)>> >>),
       Tag("compound", << <<(<<"a", "\\">>), Tag("byte", 1)>> >>),
       Tag("compound",
           << <<(<<"k", ".", "e", "+", "y", "-", "_">>),
                Tag("string", <<"a", "b", "c", "d", "e", "f", "g", "h", "i",
                                "j", "k", "l", "m", "n", "o", "p", "q", "r",
                                "s", "t", "u">>)>>,
              <<(<<"l">>),
                Tag("list", Tag("string",
                    << <<"a", "b", "c", "d", "e", "f", "g", "h", "i", "j",
                         "k", "l", "m", "n", "o", "p", "q", "r">>,
                       <<"z">> >>))>> >>) >>

IsStfTag(d) ==
    \/ \E i \in 1..Len(FixedTags) : d = FixedTags[i]
    \/ \E i \in 1..Len(StfTags) : d = StfTags[i]
    \/ \E t \in ElementTypes, k \in 0..MaxListLen :
          \E v \in [1..k -> PayloadsOf(t)] : d = Tag("list", Tag(t, v))
    \/ \E t \in ArrayTypes, k \in 0..MaxListLen :
          \E v \in [1..k -> PayloadsOf(ArrayElement(t))] : d = Tag(t, v)

InitSTF ==
    /\ pc = "in"
    /\ IsStfTag(doc)
    /\ wire = None
    /\ back = None
    /\ NoArchive

EmitSNBT ==
    /\ pc = "in"
    /\ wire' = toSNBT(doc, 0)
    /\ pc' = "emitted"
    /\ UNCHANGED <<doc, back>>
    /\ UNCHANGED archiveVars

ParseSNBT ==
    /\ pc = "emitted"
    /\ wire.ok
    /\ back' = fromSNBT(wire.text)
    /\ pc' = "parsed"
    /\ UNCHANGED <<doc, wire>>
    /\ UNCHANGED archiveVars

NextSTF == EmitSNBT \/ ParseSNBT

SpecSTF == InitSTF /\ [][NextSTF]_vars

\* C4: for every well-formed tag t (floats and doubles, strings with quotes,
\* backslashes or control characters, compound keys that need quoting, empty
\* lists of any element variant), fromSNBT(toSNBT(t)) is structurally equal
\* to t.
StfRoundTrip ==
    pc = "parsed" => back.ok /\ TagEquals(back.v, doc)

----------------------------------------------------------------------------
(* The text codec through MinecraftNBT (mc-nbt.js): toSNBT(nbtData, pretty) *)
(* and fromSNBT, the text emitted again from what was parsed.               *)

\* MinecraftNBT.toSNBT(nbtData, pretty)
MinecraftNBT_toSNBT(nbtData, pretty) ==
    toSNBT(nbtData, IF pretty THEN 0 ELSE -1)

\* text = mc.toSNBT(doc, pretty)
ToSNBT ==
    /\ pc = "in"
    /\ \E pretty \in BOOLEAN :
           /\ wire' = MinecraftNBT_toSNBT(doc, pretty)
           /\ last' = [op |-> "toSNBT", pretty |-> pretty]
    /\ pc' = "emitted"
    /\ UNCHANGED <<doc, back>>
    /\ UNCHANGED <<chunks, locations, timestamps, heldBuffer, disk, now,
                   console, tasks, written, steps>>

\* parsed = mc.fromSNBT(text)
FromSNBT ==
    /\ pc = "emitted"
    /\ wire.ok
    /\ back' = fromSNBT(wire.text)
    /\ pc' = "parsed"
    /\ UNCHANGED <<doc, wire>>
    /\ UNCHANGED archiveVars

\* again = mc.toSNBT(parsed, pretty)
ToSNBTAgain ==
    /\ pc = "parsed"
    /\ back.ok
    /\ last' = [op |-> "toSNBT", pretty |-> last.pretty,
                again |-> MinecraftNBT_toSNBT(back.v, last.pretty)]
    /\ pc' = "emitted again"
    /\ UNCHANGED <<doc, wire, back>>
    /\ UNCHANGED <<chunks, locations, timestamps, heldBuffer, disk, now,
                   console, tasks, written, steps>>

NextText == ToSNBT \/ FromSNBT \/ ToSNBTAgain

SpecText == InitSTF /\ [][NextText]_vars

\* C24: toSNBT(doc, false) returns a text of one line; fromSNBT accepts that
\* text, and toSNBT(parsed, false) returns the same text again.
CompactEmission ==
    (pc # "in" /\ ~last.pretty) =>
        /\ wire.ok
        /\ \A i \in 1..Len(wire.text) : wire.text[i] # "\n"
        /\ pc = "parsed" => back.ok
        /\ pc = "emitted again" =>
               last.again.ok /\ last.again.text = wire.text

----------------------------------------------------------------------------
(* Equality of chunks and of chunk maps                                    *)

\* a and b are equal trees
DataEquals(a, b) == a.bulk = b.bulk /\ DocumentEquals(a.doc, b.doc)

\* a and b are the same object
SameInstance(a, b) == a.id = b.id /\ DataEquals(a, b)

\* what two calls of getChunk returned is the same
SameResult(a, b) ==
    a.found = b.found /\ (a.found => SameInstance(a.data, b.data))

\* the same entries in the same order
MapEquals(a, b) ==
    /\ Len(a) = Len(b)
    /\ \A i \in 1..Len(a) :
           a[i].key = b[i].key /\ SameInstance(a[i].data, b[i].data)

\* the same coordinates, each mapped to an equal tree
MapSame(a, b) ==
    /\ MapKeys(a) = MapKeys(b)
    /\ \A i \in 1..Len(a) : DataEquals(a[i].data, MapGet(b, a[i].key))

----------------------------------------------------------------------------
(* The region archive, synchronous class (mca-handler.js)                  *)

MaxSteps == 3
MaxTime == 2

Hello == Named(Tag("compound",
                   << <<(<<"H", "e", "l", "l", "o">>), Tag("int", 42)>> >>),
               <<>>)
EmptyIntList ==
    Named(Tag("compound", << <<(<<"L">>), Tag("list", Tag("int", <<>>))>> >>),
          <<>>)
ByteOutOfRange ==
    Named(Tag("compound", << <<(<<"b">>), Tag("byte", 300)>> >>), <<>>)

\* the chunks handed to setChunk: a small one, one with an empty list, one
\* of two sectors, one of 256 sectors, one that NBT.stringify rejects
ChunkInputs ==
    << Chunk(Hello, 0, 0),
       Chunk(EmptyIntList, 0, 0),
       Chunk(Hello, SECTOR_SIZE, 0),
       Chunk(Hello, 256 * SECTOR_SIZE - 600, 0),
       Chunk(ByteOutOfRange, 0, 0) >>

\* the coordinates handed to the chunk operations
Coordinates == {<<37, -23>>, <<-1, 32>>}

\* a region file with the chunks (0,0), of one sector, and (5,9), of two
BaseFile ==
    File(createMCABuffer(<<[key |-> <<0, 0>>, data |-> ChunkInputs[1]],
                           [key |-> <<5, 9>>, data |-> ChunkInputs[3]]>>,
                         Empty, 1))

\* the ways the blob of the slot at index i of a file is made unreadable
Damages ==
    {"none", "offset", "length", "zero", "code0", "gzip", "stored", "junk",
     "tbf"}

Damaged(file, i, how) ==
    LET at == SectorOffset(file.loc[i]) * SECTOR_SIZE
        blob == file.blobs[at]
    IN  CASE how = "offset" ->
               [file EXCEPT !.loc[i] = LocationWord(file.size \div SECTOR_SIZE, 1)]
          [] how = "length" ->
               [file EXCEPT !.blobs[at].length = file.size]
          [] how = "zero" ->
               [file EXCEPT !.blobs = Remove(@, at)]
          [] how = "code0" -> [file EXCEPT !.blobs[at].ctype = 0]
          [] how = "gzip" -> [file EXCEPT !.blobs[at].ctype = 1]
          [] how = "stored" -> [file EXCEPT !.blobs[at].ctype = 3]
          [] how = "junk" -> [file EXCEPT !.blobs[at].data.alg = "junk"]
          [] how = "tbf" ->
               [file EXCEPT !.blobs[at].data.raw = <<10>>,
                            !.blobs[at].length = blob.data.bulk + 2]
          [] OTHER -> file

\* the region files found on disk
IsRegionFile(file) ==
    \/ \E how \in Damages : file = Damaged(BaseFile, 0, how)
    \/ file = Damaged(BaseFile, Index(5, 9), "length")

InitArchive ==
    /\ pc = "archive"
    /\ doc = None
    /\ wire = None
    /\ back = None
    /\ NewArchive
    /\ tasks = Idle
    /\ IsRegionFile(disk)
    /\ now = 1

\* mca = await MCAFile.load(filepath), the archive being mca from then on
Load ==
    /\ steps < MaxSteps
    /\ \E mca \in {parseFile(disk)} :
           /\ chunks' = mca.chunks
           /\ locations' = mca.locations
           /\ timestamps' = mca.timestamps
           /\ console' = console \o mca.warnings
           /\ last' = [op |-> "load", mark |-> Len(console)]
    /\ steps' = steps + 1
    /\ UNCHANGED <<heldBuffer, disk, now, tasks, written>>
    /\ UNCHANGED codecVars

\* mca.setChunk(x, z, chunkData) for a coordinate of where and one of
\* the chunks numbered in which
SetChunkOf(where, which) ==
    /\ steps < MaxSteps
    /\ \E c \in where, i \in which :
           LET set == setChunk(chunks, timestamps, c[1], c[2], ChunkInputs[i],
                               now)
           IN  /\ chunks' = set.chunks
               /\ timestamps' = set.timestamps
               /\ last' = [op |-> "set", x |-> c[1], z |-> c[2],
                           data |-> ChunkInputs[i], before |-> chunks,
                           at |-> now, stamps |-> timestamps,
                           places |-> locations]
    /\ steps' = steps + 1
    /\ UNCHANGED <<locations, heldBuffer, disk, now, console, tasks, written>>
    /\ UNCHANGED codecVars

SetChunk == SetChunkOf(Coordinates, 1..Len(ChunkInputs))

\* mca.removeChunk(x, z)
RemoveChunk ==
    /\ steps < MaxSteps
    /\ \E c \in Coordinates :
           LET removed == removeChunk(chunks, locations, timestamps, c[1], c[2])
           IN  /\ chunks' = removed.chunks
               /\ locations' = removed.locations
               /\ timestamps' = removed.timestamps
               /\ last' = [op |-> "remove", x |-> c[1], z |-> c[2],
                           returned |-> removed.returned, before |-> chunks,
                           stamps |-> timestamps, places |-> locations]
    /\ steps' = steps + 1
    /\ UNCHANGED <<heldBuffer, disk, now, console, tasks, written>>
    /\ UNCHANGED codecVars

\* await mca.save(filepath)
Save ==
    /\ steps < MaxSteps
    /\ \E made \in {createMCABuffer(chunks, timestamps, now)} :
           /\ disk' = save(disk, made)
           /\ written' = IF made.ok
                         THEN [known |-> TRUE, chunks |-> chunks,
                               stamps |-> timestamps]
                         ELSE written
           /\ last' = [op |-> "save", ok |-> made.ok, target |-> disk]
    /\ steps' = steps + 1
    /\ UNCHANGED <<chunks, locations, timestamps, heldBuffer, now, console,
                   tasks>>
    /\ UNCHANGED codecVars

\* a second passes
Tick ==
    /\ now < MaxTime
    /\ now' = now + 1
    /\ UNCHANGED <<chunks, locations, timestamps, heldBuffer, disk, console,
                   tasks, last, written, steps>>
    /\ UNCHANGED codecVars

NextArchive == Load \/ SetChunk \/ RemoveChunk \/ Save \/ Tick

SpecArchive == InitArchive /\ [][NextArchive]_vars

----------------------------------------------------------------------------
(* The archive built from its JSON form as well: MCAFile.fromJSON          *)

\* what fromJSON is given: a timestamp of 0 and one of 7, a key beyond the
\* region, chunks without timestamps, a timestamp without a chunk
JsonInputs ==
    << [chunks |-> << [key |-> <<0, 0>>, data |-> ChunkInputs[1]],
                      [key |-> <<5, 9>>, data |-> ChunkInputs[2]] >>,
        timestamps |-> << [key |-> <<0, 0>>, timestamp |-> 0],
                          [key |-> <<5, 9>>, timestamp |-> 7] >>],
       [chunks |-> << [key |-> <<37, -23>>, data |-> ChunkInputs[1]] >>,
        timestamps |-> << [key |-> <<37, -23>>, timestamp |-> 7] >>],
       [chunks |-> << [key |-> <<0, 0>>, data |-> ChunkInputs[1]] >>,
        timestamps |-> <<>>],
       [chunks |-> <<>>,
        timestamps |-> << [key |-> <<1, 1>>, timestamp |-> 5] >>] >>

InitJson ==
    /\ pc = "archive"
    /\ doc = None
    /\ wire = None
    /\ back = None
    /\ NewArchive
    /\ tasks = Idle
    /\ disk = BaseFile
    /\ now = 1

\* mca = MCAFile.fromJSON(jsonData), the archive being mca from then on
FromJSON ==
    /\ steps < MaxSteps
    /\ \E i \in 1..Len(JsonInputs) :
           \E mca \in {fromJSON(JsonInputs[i], now)} :
               /\ chunks' = mca.chunks
               /\ locations' = mca.locations
               /\ timestamps' = mca.timestamps
               /\ last' = [op |-> "fromJSON", json |-> i]
    /\ steps' = steps + 1
    /\ UNCHANGED <<heldBuffer, disk, now, console, tasks, written>>
    /\ UNCHANGED codecVars

NextJson == Load \/ SetChunk \/ RemoveChunk \/ Save \/ Tick \/ FromJSON

SpecJson == InitJson /\ [][NextJson]_vars

\* C19: after setChunk(x, z, d), getChunk(x, z) returns d and the timestamp
\* of the slot (z mod 32) * 32 + (x mod 32) is the wall-clock time of the
\* call in seconds; the chunk, the location entry and the timestamp of
\* every other slot are what they were.
SetChunkEffect ==
    last.op = "set" =>
        LET slot == Index(last.x % 32, last.z % 32)
        IN  /\ getChunk(chunks, last.x, last.z)
                   = [found |-> TRUE, data |-> last.data]
            /\ At(timestamps, slot) = last.at
            /\ \A x \in 0..31, z \in 0..31 :
                   Index(x, z) # slot =>
                       /\ getChunk(chunks, x, z) = getChunk(last.before, x, z)
                       /\ At(timestamps, Index(x, z))
                              = At(last.stamps, Index(x, z))
            /\ locations = last.places

\* a chunk was set under a negative coordinate a second after another slot
\* had got its chunk, location entry and timestamp
SetChunkEffectWitness ==
    /\ last.op = "set"
    /\ last.z < 0
    /\ last.at = 2
    /\ \E i \in DOMAIN locations :
           /\ i # Index(last.x % 32, last.z % 32)
           /\ At(timestamps, i) = 1
           /\ At(last.stamps, Index(last.x % 32, last.z % 32)) = 1

\* C20: for every archive reached by load, setChunk, removeChunk and
\* fromJSON and every chunk it stores, the timestamp that load reads from
\* the bytes of save is the timestamp the slot had before the save, also
\* when that is 0; and load keeps every timestamp word of the file it read.
TimestampsSurvive ==
    /\ (last.op = "load" /\ written.known) =>
           \A k \in 1..Len(written.chunks) :
               LET i == Index(written.chunks[k].key[1],
                              written.chunks[k].key[2])
               IN  At(timestamps, i) = At(written.stamps, i)
    /\ last.op = "load" =>
           \A i \in 0..1023 : At(timestamps, i) = At(disk.ts, i)

----------------------------------------------------------------------------
(* Claims on the synchronous archive                                       *)

\* C2: loading the bytes that save produced yields a chunk map equal to
\* the chunk map before the save: the same coordinates, each mapped to an
\* equal document, whatever the compressed size of a chunk.
RegionRoundTrip ==
    (last.op = "load" /\ written.known) => MapSame(chunks, written.chunks)

\* Math.ceil((compressed_len + 5) / 4096) of a stored chunk
SectorsOf(data) ==
    CeilDiv(Len(NBT_stringify(data.doc).bytes) + data.bulk + 5, 4096)

\* 2 plus the sectors of the chunks stored before the k-th
RECURSIVE StartOf(_, _)
StartOf(m, k) ==
    IF k = 1 THEN 2 ELSE StartOf(m, k - 1) + SectorsOf(m[k - 1].data)

\* C3: after save the stored chunks have contiguous sectors from sector 2
\* on in the chunk map's iteration order; the location entry of the chunk
\* at index z*32 + x decodes to its start sector and to
\* ceil((compressed_len + 5)/4096) sectors; the sector ranges of two chunks
\* do not overlap; the location entries of the other slots are zero; and
\* the bytes from the end of a blob to its sector boundary are zero.
ArchiveLayout ==
    (last.op = "save" /\ last.ok) =>
        /\ \A k \in 1..Len(chunks) :
               LET i == Index(chunks[k].key[1], chunks[k].key[2])
                   start == StartOf(chunks, k)
                   count == SectorsOf(chunks[k].data)
               IN  /\ i \in DOMAIN disk.loc
                   /\ SectorOffset(disk.loc[i]) = start
                   /\ SectorCount(disk.loc[i]) = count
                   /\ start * 4096 \in DOMAIN disk.blobs
                   /\ disk.blobs[start * 4096].length + 4 <= count * 4096
                   /\ (start + count) * 4096 <= disk.size
                   /\ \A j \in 1..(k - 1) :
                          StartOf(chunks, j) + SectorsOf(chunks[j].data) <= start
        /\ \A i \in DOMAIN disk.loc :
               \E k \in 1..Len(chunks) :
                   i = Index(chunks[k].key[1], chunks[k].key[2])
        /\ Cardinality(DOMAIN disk.blobs) = Len(chunks)

\* the coordinates get_chunk is asked for, and the pairs <<k, m>> of
\* multiples of 32 added to them
Probes == Coordinates \cup {<<31, 0>>, <<5, 9>>}
Shifts == {<<-1, 0>>, <<0, 2>>, <<1, 1>>, <<3, -2>>}

\* C5: in every reachable state get_chunk(x, z) returns what
\* get_chunk(x + 32k, z + 32m) returns; set_chunk and remove_chunk act on
\* the slot (x mod 32, z mod 32) of the non-negative modulus, also for
\* negative x or z.
CoordinateWrap ==
    /\ \A c \in Probes, km \in Shifts :
           SameResult(getChunk(chunks, c[1], c[2]),
                      getChunk(chunks, c[1] + 32 * km[1], c[2] + 32 * km[2]))
    /\ \A key \in MapKeys(chunks) : key[1] \in 0..31 /\ key[2] \in 0..31
    /\ last.op = "set" =>
           MapEquals(chunks, MapSet(last.before, <<And31(last.x), And31(last.z)>>,
                                    last.data))
    /\ last.op = "remove" =>
           MapEquals(chunks, MapDelete(last.before,
                                       <<And31(last.x), And31(last.z)>>))

\* a chunk was stored under a negative coordinate and another removed
\* through a coordinate beyond 31
CoordinateWrapWitness ==
    /\ last.op = "remove"
    /\ last.returned
    /\ last.x = 37
    /\ MapHas(chunks, <<31, 0>>)

\* the diagnostics that an MCAFile carries: it has the fields chunks,
\* locations and timestamps, and a failed read goes to console.warn alone
AttachedDiagnostics == <<>>

\* the warnings that the last load gave to console.warn
LoadWarnings == SubSeq(console, last.mark + 1, Len(console))

\* what load did with the populated slot at index i of the file: the blob
\* is unreadable and the slot is left out, or it is readable and the chunk
\* map holds what it reads as
SlotHandled(i) ==
    LET x == i % 32
        z == i \div 32
        read == readChunk(disk, parseLocations(disk)[i], 0)
    IN  /\ ~read.ok => ~MapHas(chunks, <<x, z>>)
        /\ (read.ok /\ ~read.null) =>
               /\ MapHas(chunks, <<x, z>>)
               /\ DataEquals(MapGet(chunks, <<x, z>>), read.v)

SlotFailed(i) == ~readChunk(disk, parseLocations(disk)[i], 0).ok

----------------------------------------------------------------------------
(* The region archive, asynchronous class (nbt-core.js), loaded lazily.    *)
(* tasks is [op |-> "calls", calls, order]: the calls of getChunk and      *)
(* getChunkAsync made so far, in the order they were made, and the         *)
(* getChunkAsync calls that have returned, in the order they returned.  A  *)
(* call is [kind, x, z, key, state, read, found, data, epoch]: read tells   *)
(* that it read the byte source, epoch is the number of setChunk,          *)
(* removeChunk and clearBuffer calls made before it.                       *)

MaxCalls == 3
MaxMutations == 1

\* the coordinates asked for: a populated slot, another one spelled outside
\* 0..31, and an empty slot
LazyCoordinates == {<<0, 0>>, <<37, -23>>, <<-1, 32>>}

\* readChunkAsync: the steps of readChunk, with the zlib calls awaited
readChunkAsync(buffer, location, id) == readChunk(buffer, location, id)

\* getChunkAsync up to its await: the call, returned or suspended
getChunkAsyncBegin(chunks_, held, locations_, x, z, epoch) ==
    LET regionX == And31(x)
        regionZ == And31(z)
        key == <<regionX, regionZ>>
        index == Index(regionX, regionZ)
        call == [kind |-> "getChunkAsync", x |-> x, z |-> z, key |-> key,
                 epoch |-> epoch]
    IN  IF MapHas(chunks_, key)
        THEN call @@ [state |-> "done", read |-> FALSE, found |-> TRUE,
                      data |-> MapGet(chunks_, key)]
        ELSE IF held.set /\ index \in DOMAIN locations_
        THEN call @@ [state |-> "pending", read |-> TRUE, found |-> FALSE,
                      data |-> "undefined", buffer |-> held.file,
                      location |-> locations_[index]]
        ELSE call @@ [state |-> "done", read |-> FALSE, found |-> FALSE,
                      data |-> "undefined"]

\* the key of a variable shared by the calls: that of the call made last
StoreSharedKey(own, latest) == latest

\* the key that a resumed call stores its chunk under: its own const key
StoreKey(own, latest) == own

\* getChunkAsync from its await on, for the id-th call: [chunks, call,
\* warnings]; latest is the key of the call made last
getChunkAsyncEnd(chunks_, call, id, latest) ==
    LET returned == [kind |-> call.kind, x |-> call.x, z |-> call.z,
                     key |-> call.key, epoch |-> call.epoch,
                     state |-> "done", read |-> TRUE]
    IN  CHOOSE end \in
            {IF chunkData.ok /\ ~chunkData.null
             THEN [chunks |-> MapSet(chunks_, StoreKey(call.key, latest),
                                     chunkData.v),
                   call |-> returned @@ [found |-> TRUE,
                                         data |-> chunkData.v],
                   warnings |-> <<>>]
             ELSE [chunks |-> chunks_,
                   call |-> returned @@ [found |-> FALSE,
                                         data |-> "undefined"],
                   warnings |-> IF chunkData.ok THEN <<>>
                                ELSE <<Warning(call.key[1], call.key[2],
                                               chunkData.error)>>]
             : chunkData \in {readChunkAsync(call.buffer, call.location,
                                             id)}} : TRUE

InitLazy ==
    /\ pc = "lazy"
    /\ doc = None
    /\ wire = None
    /\ back = None
    /\ NewArchive
    /\ tasks = [op |-> "calls", calls |-> <<>>, order |-> <<>>]
    /\ \E how \in {"none", "junk"} : disk = Damaged(BaseFile, 0, how)
    /\ now = 1

\* mca = await MCAFile.loadAsync(filepath, {lazy: true})
LoadLazy ==
    /\ last.op = "new"
    /\ locations' = parseLocations(disk)
    /\ timestamps' = parseTimestamps(disk)
    /\ heldBuffer' = [set |-> TRUE, file |-> disk]
    /\ last' = [op |-> "loadAsync", lazy |-> TRUE]
    /\ UNCHANGED <<chunks, disk, now, console, tasks, written, steps>>
    /\ UNCHANGED codecVars

\* mca.getChunk(x, z)
GetChunk ==
    /\ last.op # "new"
    /\ Len(tasks.calls) < MaxCalls
    /\ \E c \in LazyCoordinates :
           LET got == getChunk(chunks, c[1], c[2])
           IN  tasks' = [tasks EXCEPT !.calls =
                   Append(@, [kind |-> "getChunk", x |-> c[1], z |-> c[2],
                              key |-> <<And31(c[1]), And31(c[2])>>,
                              epoch |-> steps, state |-> "done",
                              read |-> FALSE, found |-> got.found,
                              data |-> got.data])]
    /\ UNCHANGED <<chunks, locations, timestamps, heldBuffer, disk, now,
                   console, last, written, steps>>
    /\ UNCHANGED codecVars

\* mca.getChunkAsync(x, z) is called and runs up to its await
GetChunkAsyncCall ==
    /\ last.op # "new"
    /\ Len(tasks.calls) < MaxCalls
    /\ \E c \in LazyCoordinates :
           \E call \in {getChunkAsyncBegin(chunks, heldBuffer, locations,
                                            c[1], c[2], steps)} :
               tasks' = [calls |-> Append(tasks.calls, call),
                         order |-> IF call.state = "done"
                                   THEN Append(tasks.order, Len(tasks.calls) + 1)
                                   ELSE tasks.order,
                         op |-> "calls"]
    /\ UNCHANGED <<chunks, locations, timestamps, heldBuffer, disk, now,
                   console, last, written, steps>>
    /\ UNCHANGED codecVars

\* a suspended getChunkAsync is resumed and returns
GetChunkAsyncReturn ==
    /\ \E n \in 1..Len(tasks.calls) :
           /\ tasks.calls[n].state = "pending"
           /\ \E end \in {getChunkAsyncEnd(chunks, tasks.calls[n], n,
                                            tasks.calls[Len(tasks.calls)].key)} :
                  /\ chunks' = end.chunks
                  /\ console' = console \o end.warnings
                  /\ tasks' = [calls |-> [tasks.calls EXCEPT ![n] = end.call],
                               order |-> Append(tasks.order, n),
                               op |-> "calls"]
    /\ UNCHANGED <<locations, timestamps, heldBuffer, disk, now, last,
                   written, steps>>
    /\ UNCHANGED codecVars

\* a setChunk, removeChunk or clearBuffer may still be made
Mutable == last.op # "new" /\ steps < MaxMutations

\* mca.clearBuffer()
ClearBuffer ==
    /\ Mutable
    /\ heldBuffer' = [set |-> FALSE]
    /\ last' = [op |-> "clearBuffer"]
    /\ steps' = steps + 1
    /\ UNCHANGED <<chunks, locations, timestamps, disk, now, console, tasks,
                   written>>
    /\ UNCHANGED codecVars

\* setChunk on the lazily loaded archive
LazySetChunk == Mutable /\ SetChunkOf({<<0, 0>>, <<37, -23>>}, {1})

\* removeChunk on the lazily loaded archive
LazyRemoveChunk == Mutable /\ RemoveChunk

\* await mca.save(filepath) on the lazily loaded archive
LazySave == Mutable /\ Save

NextLazy ==
    \/ LoadLazy
    \/ GetChunk
    \/ GetChunkAsyncCall
    \/ GetChunkAsyncReturn
    \/ LazySetChunk
    \/ LazyRemoveChunk
    \/ LazySave
    \/ ClearBuffer

SpecLazy == InitLazy /\ [][NextLazy]_vars

----------------------------------------------------------------------------
(* Claims on the lazily loaded archive                                     *)

\* the slot of a call holds a chunk that the retained byte source yields
Populated(key) ==
    /\ heldBuffer.set
    /\ Index(key[1], key[2]) \in DOMAIN locations
    /\ \E chunkData \in {readChunk(heldBuffer.file,
                                    locations[Index(key[1], key[2])], 0)} :
           chunkData.ok /\ ~chunkData.null

RECURSIVE Serial(_)
Serial(k) ==
    IF k = 0 THEN [chunks |-> <<>>, calls |-> <<>>]
    ELSE CHOOSE after \in
             {IF begun.state = "done"
              THEN [chunks |-> before.chunks,
                    calls |-> Append(before.calls, begun)]
              ELSE [chunks |-> getChunkAsyncEnd(before.chunks, begun, k,
                                                begun.key).chunks,
                    calls |-> Append(before.calls,
                                     getChunkAsyncEnd(before.chunks, begun, k,
                                                      begun.key).call)]
              : <<before, begun>> \in
                    {<<prev, getChunkAsyncBegin(prev.chunks, heldBuffer,
                                                locations, tasks.calls[k].x,
                                                tasks.calls[k].z, 0)>>
                     : prev \in {Serial(k - 1)}}} : TRUE

\* only getChunkAsync was called, for pairwise distinct slots, every call
\* has returned and nothing else touched the archive
DistinctReads ==
    /\ tasks.op = "calls"
    /\ steps = 0
    /\ \A n \in 1..Len(tasks.calls) :
           /\ tasks.calls[n].kind = "getChunkAsync"
           /\ tasks.calls[n].state = "done"
           /\ \A m \in 1..(n - 1) : tasks.calls[m].key # tasks.calls[n].key

\* C7: getChunkAsync calls for pairwise distinct slots of a lazily loaded
\* archive, interleaved in any way at their awaits, return chunks equal to
\* those the same calls return when issued one after another, and leave an
\* equal chunk map.
ParallelismSafety ==
    DistinctReads =>
        \E serial \in {Serial(Len(tasks.calls))} :
            /\ MapSame(chunks, serial.chunks)
            /\ \A n \in 1..Len(tasks.calls) :
                   /\ tasks.calls[n].found = serial.calls[n].found
                   /\ tasks.calls[n].found =>
                          DataEquals(tasks.calls[n].data, serial.calls[n].data)

\* two reads of distinct populated slots, the one called last returning first
ParallelismSafetyWitness ==
    /\ DistinctReads
    /\ Len(tasks.calls) = 2
    /\ tasks.order = <<2, 1>>
    /\ \A n \in 1..2 : tasks.calls[n].read /\ tasks.calls[n].found

\* the slot of key holds a chunk in the region file
InFile(file, key) ==
    /\ Index(key[1], key[2]) \in DOMAIN parseLocations(file)
    /\ \E chunkData \in {readChunk(file,
                                    parseLocations(file)[Index(key[1], key[2])],
                                    0)} :
           chunkData.ok /\ ~chunkData.null

\* the chunk the region file holds in the slot of key
FromFile(file, key) ==
    readChunk(file, parseLocations(file)[Index(key[1], key[2])], 0).v

\* C21: after clearBuffer on a lazily loaded archive, a getChunkAsync issued
\* afterwards for a slot populated in the file reads the byte source again
\* and returns a tree equal to, and not the same instance as, what the calls
\* for that slot returned before.
ClearCacheSemantics ==
    last.op = "clearBuffer" =>
        \A j \in 1..Len(tasks.calls) :
            (/\ tasks.calls[j].kind = "getChunkAsync"
             /\ tasks.calls[j].state = "done"
             /\ tasks.calls[j].epoch = steps
             /\ InFile(disk, tasks.calls[j].key)) =>
                /\ tasks.calls[j].found
                /\ tasks.calls[j].read
                /\ DataEquals(tasks.calls[j].data,
                              FromFile(disk, tasks.calls[j].key))
                /\ \A i \in 1..(j - 1) :
                       (/\ tasks.calls[i].state = "done"
                        /\ tasks.calls[i].epoch < steps
                        /\ tasks.calls[i].key = tasks.calls[j].key
                        /\ tasks.calls[i].found) =>
                           ~SameInstance(tasks.calls[i].data,
                                         tasks.calls[j].data)

\* C26: a getChunkAsync that was called before a setChunk(x, z, d) for the
\* same slot and had not stored its chunk when the setChunk ran has
\* returned: getChunk(x, z) returns d.
SetChunkNotOverwritten ==
    (/\ last.op = "set"
     /\ \E n \in 1..Len(tasks.calls) :
            /\ tasks.calls[n].kind = "getChunkAsync"
            /\ tasks.calls[n].key = <<And31(last.x), And31(last.z)>>
            /\ tasks.calls[n].epoch < steps
            /\ tasks.calls[n].read
            /\ tasks.calls[n].state = "done"
            /\ tasks.order # <<>>
            /\ tasks.order[Len(tasks.order)] = n) =>
        \E got \in {getChunk(chunks, last.x, last.z)} :
            got.found /\ SameInstance(got.data, last.data)

\* C27: the file written by save on a lazily loaded archive holds, in every
\* slot populated in the source file, a chunk equal to the one of the source
\* file, whether the slot was materialised before the save or not.
LazySaveKeepsChunks ==
    (last.op = "save" /\ last.ok /\ heldBuffer.set) =>
        \A key \in {<<x, z>> : x \in {0, 5}, z \in {0, 9}} :
            InFile(heldBuffer.file, key) =>
                /\ InFile(disk, key)
                /\ DataEquals(FromFile(disk, key),
                              FromFile(heldBuffer.file, key))

\* the slot of the removeChunk call held a chunk: materialised, or populated
\* in the byte source the archive reads from
HeldChunk ==
    \/ MapHas(last.before, <<And31(last.x), And31(last.z)>>)
    \/ /\ heldBuffer.set
       /\ Index(And31(last.x), And31(last.z)) \in DOMAIN last.places
       /\ InFile(heldBuffer.file, <<And31(last.x), And31(last.z)>>)

\* C28: after removeChunk(x, z) on a lazily loaded archive, getChunk and
\* getChunkAsync return nothing for the slot, its location entry is empty
\* and its timestamp is 0, the entries of the other slots are as before, and
\* the call returned true exactly when the slot held a chunk.
RemoveChunkEffective ==
    last.op = "remove" =>
        /\ ~getChunk(chunks, last.x, last.z).found
        /\ \A j \in 1..Len(tasks.calls) :
               (/\ tasks.calls[j].state = "done"
                /\ tasks.calls[j].epoch = steps
                /\ tasks.calls[j].key = <<And31(last.x), And31(last.z)>>) =>
                   ~tasks.calls[j].found
        /\ Index(And31(last.x), And31(last.z)) \notin DOMAIN locations
        /\ At(timestamps, Index(And31(last.x), And31(last.z))) = 0
        /\ \A i \in (DOMAIN last.places \cup DOMAIN locations)
                       \ {Index(And31(last.x), And31(last.z))} :
               /\ i \in DOMAIN last.places
               /\ i \in DOMAIN locations
               /\ locations[i] = last.places[i]
        /\ \A i \in (DOMAIN last.stamps \cup DOMAIN timestamps)
                       \ {Index(And31(last.x), And31(last.z))} :
               At(timestamps, i) = At(last.stamps, i)
        /\ \A i \in 1..Len(last.before) :
               last.before[i].key # <<And31(last.x), And31(last.z)>> =>
                   /\ MapHas(chunks, last.before[i].key)
                   /\ SameInstance(MapGet(chunks, last.before[i].key),
                                   last.before[i].data)
        /\ last.returned <=> HeldChunk

\* C29: two getChunkAsync calls for the same populated slot, the second made
\* before the first stored its chunk, have returned: both returned the same
\* instance, and the chunk map holds that instance.
OverlappingReadsShare ==
    steps = 0 =>
        \A j \in 1..Len(tasks.calls) : \A i \in 1..(j - 1) :
            (/\ tasks.calls[i].key = tasks.calls[j].key
             /\ tasks.calls[i].state = "done" /\ tasks.calls[j].state = "done"
             /\ tasks.calls[i].read /\ tasks.calls[j].read
             /\ tasks.calls[i].found /\ tasks.calls[j].found) =>
                /\ SameInstance(tasks.calls[i].data, tasks.calls[j].data)
                /\ MapHas(chunks, tasks.calls[j].key)
                /\ SameInstance(MapGet(chunks, tasks.calls[j].key),
                                tasks.calls[j].data)

----------------------------------------------------------------------------
(* The region archive, asynchronous class (nbt-core.js): eager loadAsync,  *)
(* saveAsync and the bulk operations.  tasks is Idle or the operation that *)
(* is running, with inflight the set of its tasks that have been started   *)
(* and have not settled.  An operation is started when none is running.    *)

ManyChunks == 11
NFiles == 6

\* const { lazy = false, maxConcurrency = 10 } = options
ChunkConcurrency == 10
\* const { maxConcurrency = 5 } = options
FileConcurrency == 5

Min(a, b) == IF a < b THEN a ELSE b

\* a region file of ManyChunks small chunks
ManyFile ==
    File(createMCABuffer([k \in 1..ManyChunks |->
                             [key |-> <<k - 1, 0>>, data |-> ChunkInputs[1]]],
                         Empty, 1))

InitAsync ==
    /\ pc = "async"
    /\ doc = None
    /\ wire = None
    /\ back = None
    /\ NewArchive
    /\ tasks = Idle
    /\ disk \in {ManyFile, Damaged(BaseFile, 0, "junk")}
    /\ now = 1

\* parseFileAsync: validChunks
validChunks(locations_) ==
    [p \in 1..Cardinality(DOMAIN locations_) |->
        [index |-> Ascending(DOMAIN locations_)[p],
         location |-> locations_[Ascending(DOMAIN locations_)[p]]]]

\* a slice that runs to the end of the array whatever maxConcurrency is
sliceToEnd(i, maxConcurrency, length) == (i + 1)..length

\* the tasks of validChunks.slice(i, i + maxConcurrency)
batch(i, maxConcurrency, length) == (i + 1)..Min(i + maxConcurrency, length)

\* mca = MCAFile.loadAsync(filepath, {maxConcurrency}) up to the first
\* await Promise.all(chunkPromises); reads[p] is what readChunkAsync yields
\* for validChunks[p], fixed by the buffer the call was handed
LoadAsyncStart ==
    /\ tasks = Idle
    /\ steps < MaxSteps
    /\ \E valid \in {validChunks(parseLocations(disk))} :
       \E reads \in {<<>> \o [p \in 1..Len(valid) |->
                        readChunkAsync(disk, valid[p].location, 0)]} :
       \E maxConcurrency \in {1, 2, ChunkConcurrency} :
           tasks' = IF Len(valid) = 0 THEN Idle
                    ELSE [op |-> "loadAsync", limit |-> maxConcurrency,
                          buffer |-> disk, validChunks |-> valid, i |-> 0,
                          inflight |-> batch(0, maxConcurrency, Len(valid)),
                          results |-> Empty,
                          started |-> Ascending(batch(0, maxConcurrency,
                                                      Len(valid))),
                          reads |-> reads]
    /\ chunks' = <<>>
    /\ locations' = parseLocations(disk)
    /\ timestamps' = parseTimestamps(disk)
    /\ heldBuffer' = [set |-> FALSE]
    /\ last' = [op |-> "loadAsync", lazy |-> FALSE, mark |-> Len(console)]
    /\ steps' = steps + 1
    /\ UNCHANGED <<disk, now, console, written>>
    /\ UNCHANGED codecVars

\* for (const result of results): the chunks of the batch that were read,
\* in the order of the batch; their keys being new, Map.set appends them
storeResults(chunks_, valid, results, positions) ==
    LET Kept(p) == results[p].ok /\ ~results[p].null
        first == CHOOSE p \in positions : \A q \in positions : p <= q
        entries == [n \in 1..Cardinality(positions) |-> first + n - 1]
        Entry(p) == [key |-> <<valid[p].index % 32, valid[p].index \div 32>>,
                     data |-> results[p].v]
        stored == SelectSeq(entries, Kept)
    IN  chunks_ \o [n \in 1..Len(stored) |-> Entry(stored[n])]

\* a readChunkAsync of the batch settles; the last one of a batch resumes
\* parseFileAsync, which stores the batch and starts the next one
ChunkDone ==
    /\ tasks.op = "loadAsync"
    /\ \E p \in tasks.inflight :
       \E chunkData \in {tasks.reads[p]} :
       \E results \in {Put(tasks.results, p, chunkData)} :
           /\ console' = console \o
                  (IF chunkData.ok THEN <<>>
                   ELSE <<Warning(tasks.validChunks[p].index % 32,
                                  tasks.validChunks[p].index \div 32,
                                  chunkData.error)>>)
           /\ IF tasks.inflight # {p}
              THEN /\ tasks' = [tasks EXCEPT !.inflight = @ \ {p},
                                             !.results = results]
                   /\ chunks' = chunks
              ELSE /\ chunks' = storeResults(chunks, tasks.validChunks, results,
                                             DOMAIN results)
                   /\ tasks' =
                          IF tasks.i + tasks.limit < Len(tasks.validChunks)
                          THEN [tasks EXCEPT
                                   !.i = @ + tasks.limit,
                                   !.inflight = batch(tasks.i + tasks.limit,
                                                      tasks.limit,
                                                      Len(tasks.validChunks)),
                                   !.results = Empty,
                                   !.started = @ \o Ascending(
                                       batch(tasks.i + tasks.limit, tasks.limit,
                                             Len(tasks.validChunks)))]
                          ELSE Idle
    /\ UNCHANGED <<locations, timestamps, heldBuffer, disk, now, last, written,
                   steps>>
    /\ UNCHANGED codecVars

\* mca.saveAsync(filepath) up to await Promise.all(compressionPromises):
\* chunks.map runs NBT.stringify for every chunk and starts a deflate for
\* each chunk that NBT.stringify accepted; a chunk that it rejected rejects
\* the Promise.all, and saveAsync with it
SaveAsyncStart ==
    /\ tasks = Idle
    /\ steps < MaxSteps
    /\ \E started \in {{k \in 1..Len(chunks) :
                            NBT_stringify(chunks[k].data.doc).ok}} :
           /\ tasks' = IF started = {} THEN Idle
                       ELSE [op |-> "saveAsync", chunks |-> chunks,
                             inflight |-> started,
                             rejected |-> Cardinality(started) < Len(chunks)]
           /\ IF Cardinality(started) < Len(chunks) \/ started = {}
              THEN \E made \in {createMCABufferAsync(chunks, timestamps, now)} :
                       /\ disk' = save(disk, made)
                       /\ written' = IF made.ok
                                     THEN [known |-> TRUE, chunks |-> chunks]
                                     ELSE written
                       /\ last' = [op |-> "saveAsync", settled |-> TRUE,
                                   ok |-> made.ok, target |-> disk]
              ELSE /\ disk' = disk
                   /\ written' = written
                   /\ last' = [op |-> "saveAsync", settled |-> FALSE,
                               ok |-> FALSE, target |-> disk]
    /\ steps' = steps + 1
    /\ UNCHANGED <<chunks, locations, timestamps, heldBuffer, now, console>>
    /\ UNCHANGED codecVars

\* a deflateAsync settles; the last one resumes createMCABufferAsync, which
\* builds the buffer, and saveAsync writes it
DeflateDone ==
    /\ tasks.op = "saveAsync"
    /\ \E p \in tasks.inflight :
           IF tasks.inflight = {p} /\ ~tasks.rejected
           THEN \E made \in {createMCABufferAsync(tasks.chunks, timestamps,
                                                  now)} :
                    /\ disk' = save(disk, made)
                    /\ written' = IF made.ok
                                  THEN [known |-> TRUE, chunks |-> tasks.chunks]
                                  ELSE written
                    /\ last' = [op |-> "saveAsync", settled |-> TRUE,
                                ok |-> made.ok, target |-> disk]
                    /\ tasks' = Idle
           ELSE /\ tasks' = IF tasks.inflight = {p} THEN Idle
                            ELSE [tasks EXCEPT !.inflight = @ \ {p}]
                /\ UNCHANGED <<disk, written, last>>
    /\ UNCHANGED <<chunks, locations, timestamps, heldBuffer, now, console,
                   steps>>
    /\ UNCHANGED codecVars

\* await mca.save(filepath) of the asynchronous class
SaveSync == tasks = Idle /\ Save

\* setChunk between the operations: a small chunk, or one that NBT.stringify
\* rejects
AsyncSetChunk == tasks = Idle /\ SetChunkOf({<<11, 0>>}, {1, 5})

BulkOperations ==
    {"loadMultipleAsync", "saveMultipleAsync", "processDirectoryAsync"}

\* loadMultipleAsync, saveMultipleAsync or processDirectoryAsync on NFiles
\* files, up to the first await Promise.all
BulkStart ==
    /\ tasks = Idle
    /\ steps < MaxSteps
    /\ \E op \in BulkOperations, maxConcurrency \in {2, FileConcurrency} :
           /\ tasks' = [op |-> op, limit |-> maxConcurrency, phase |-> "files",
                        width |-> maxConcurrency, i |-> 0,
                        inflight |-> batch(0, maxConcurrency, NFiles)]
           /\ last' = [op |-> op]
    /\ steps' = steps + 1
    /\ UNCHANGED <<chunks, locations, timestamps, heldBuffer, disk, now,
                   console, written>>
    /\ UNCHANGED codecVars

\* the loadAsync or saveAsync of a file settles; the last one of a batch
\* starts the next batch.  processDirectoryAsync then awaits
\* processFunction for one loaded file after the other.
FileDone ==
    /\ tasks.op \in BulkOperations
    /\ \E f \in tasks.inflight :
           tasks' =
               IF tasks.inflight # {f}
               THEN [tasks EXCEPT !.inflight = @ \ {f}]
               ELSE IF tasks.i + tasks.width < NFiles
               THEN [tasks EXCEPT !.i = @ + tasks.width,
                                  !.inflight = batch(tasks.i + tasks.width,
                                                     tasks.width, NFiles)]
               ELSE IF tasks.op = "processDirectoryAsync"
                       /\ tasks.phase = "files"
               THEN [tasks EXCEPT !.phase = "process", !.width = 1, !.i = 0,
                                  !.inflight = {1}]
               ELSE Idle
    /\ UNCHANGED <<chunks, locations, timestamps, heldBuffer, disk, now,
                   console, last, written, steps>>
    /\ UNCHANGED codecVars

NextAsync ==
    \/ LoadAsyncStart
    \/ ChunkDone
    \/ SaveAsyncStart
    \/ DeflateDone
    \/ SaveSync
    \/ AsyncSetChunk
    \/ BulkStart
    \/ FileDone

SpecAsync == InitAsync /\ [][NextAsync]_vars

\* C8: while loadAsync or saveAsync runs, at most max_concurrency (10 when
\* none is given) per-chunk tasks are in flight, and while a bulk operation
\* runs, at most max_concurrency (5 when none is given) per-file tasks are.
BoundedParallelism ==
    /\ tasks.op = "loadAsync" => Cardinality(tasks.inflight) <= tasks.limit
    /\ tasks.op = "saveAsync" =>
           Cardinality(tasks.inflight) <= ChunkConcurrency
    /\ tasks.op \in BulkOperations =>
           Cardinality(tasks.inflight) <= tasks.limit

\* C10: when NBT.stringify or the compression of a stored chunk fails during
\* save or saveAsync, the call fails and the target file keeps the content
\* it had before the call.
StrictWriter ==
    /\ (last.op = "save" /\ ~last.ok) => disk = last.target
    /\ (last.op = "saveAsync" /\ last.settled /\ ~last.ok) =>
           disk = last.target

\* a saveAsync that failed on one chunk while the deflate of another chunk
\* was in flight, the target holding a region file
StrictWriterWitness ==
    /\ last.op = "saveAsync"
    /\ last.settled
    /\ ~last.ok
    /\ tasks.op = "saveAsync"
    /\ disk = last.target
    /\ disk.size > 0

\* the slots parseFileAsync delivers a chunk for: those of validChunks whose
\* blob is read without an error
Delivered ==
    {<<tasks.validChunks[p].index % 32, tasks.validChunks[p].index \div 32>> :
         p \in {q \in 1..Len(tasks.validChunks) :
                    \E chunkData \in {readChunkAsync(tasks.buffer,
                                           tasks.validChunks[q].location, 0)} :
                        chunkData.ok /\ ~chunkData.null}}

\* C22: while parseFileAsync has not returned, the chunk map of the archive
\* holds none of the chunks the load delivers, or all of them.
NoPartialResults ==
    tasks.op = "loadAsync" =>
        \/ MapKeys(chunks) = {}
        \/ MapKeys(chunks) = Delivered

----------------------------------------------------------------------------
(* The batched operations of nbt-core.js one at a time, with what they     *)
(* return: the eager parseFileAsync, MCAFile.loadMultipleAsync and         *)
(* MCAFile.saveMultipleAsync.  A path is a number; tasks.started lists the *)
(* positions of the input in the order their tasks were started, and       *)
(* tasks.outcomes[k] is what the task of position k settles with, fixed by *)
(* the file it reads or the archive it writes (settled[filepath] is the    *)
(* outcome of the task for a path).                                        *)

MaxFiles == 4

\* a region file without chunks
EmptyRegion == File(createMCABuffer(<<>>, Empty, 1))

\* MCAFile.loadAsync(filepath, {lazy}) of a region file without chunks
loadAsync ==
    CHOOSE mca \in {parseFile(buffer) : buffer \in {EmptyRegion}} : TRUE

\* the paths handed to loadMultipleAsync: 1 and 3 hold a region file
\* without chunks, 2 and 4 hold nothing (fs.readFile rejects)
Exists(filepath) == filepath \in {1, 3}

\* the archive handed to saveMultipleAsync for a path: the one for path 2
\* holds a chunk that NBT.stringify rejects
Held(filepath) ==
    <<[key |-> <<0, 0>>,
       data |-> IF filepath = 2 THEN ChunkInputs[5] ELSE ChunkInputs[1]]>>

\* the lists of distinct paths, of every length up to MaxFiles
PathLists ==
    {list \in UNION {[1..n -> 1..MaxFiles] : n \in 0..MaxFiles} :
        \A i, j \in DOMAIN list : i # j => list[i] # list[j]}

\* the maxConcurrency options of the bulk calls: the default, and less
BulkLimits == {1, 2, FileConcurrency}

\* loadMultipleAsync: the callback of batch.map for one path
loadTask(filepath) ==
    IF Exists(filepath)
    THEN [filepath |-> filepath, mca |-> loadAsync, success |-> TRUE]
    ELSE [filepath |-> filepath, error |-> "ENOENT", success |-> FALSE]

\* saveMultipleAsync: the callback of batch.map for one entry
saveTask(entry) ==
    IF createMCABufferAsync(entry.data, Empty, 1).ok
    THEN [filepath |-> entry.key, success |-> TRUE]
    ELSE [filepath |-> entry.key, error |-> "RangeError", success |-> FALSE]

\* loadMultipleAsync, for (const result of results): mcaFiles.set for the
\* loads of the batch that succeeded, in the order of the batch
RECURSIVE storeLoads(_, _, _)
storeLoads(mcaFiles, results, positions) ==
    IF positions = <<>> THEN mcaFiles
    ELSE storeLoads(IF results[Head(positions)].success
                    THEN MapSet(mcaFiles, results[Head(positions)].filepath,
                                results[Head(positions)].mca)
                    ELSE mcaFiles,
                    results, Tail(positions))

\* back is what the bulk call returned
InitBulk ==
    /\ pc = "bulk"
    /\ doc = None
    /\ wire = None
    /\ back = [ok |-> FALSE, v |-> <<>>]
    /\ NewArchive
    /\ tasks = Idle
    /\ disk \in {ManyFile, Damaged(BaseFile, 0, "junk"), EmptyRegion}
    /\ now = 1

\* mca.parseFileAsync(buffer, {maxConcurrency}) on a new archive
ParseFileAsync == last.op = "new" /\ LoadAsyncStart

\* MCAFile.loadMultipleAsync(filepaths, {maxConcurrency}) up to the first
\* await Promise.all(loadPromises); with no path it returns an empty Map
LoadMultipleAsyncCall ==
    /\ last.op = "new"
    /\ tasks = Idle
    /\ \E settled \in {<<>> \o [filepath \in 1..MaxFiles |->
                                   loadTask(filepath)]} :
       \E filepaths \in PathLists, maxConcurrency \in BulkLimits :
           /\ tasks' = IF Len(filepaths) = 0 THEN Idle
                       ELSE [op |-> "loadMultipleAsync", limit |-> maxConcurrency,
                             filepaths |-> filepaths, i |-> 0,
                             inflight |-> batch(0, maxConcurrency,
                                                Len(filepaths)),
                             results |-> Empty, returned |-> <<>>,
                             started |-> Ascending(batch(0, maxConcurrency,
                                                         Len(filepaths))),
                             outcomes |-> [k \in 1..Len(filepaths) |->
                                              settled[filepaths[k]]]]
           /\ back' = IF Len(filepaths) = 0 THEN [ok |-> TRUE, v |-> <<>>]
                      ELSE back
           /\ last' = [op |-> "loadMultipleAsync", filepaths |-> filepaths,
                       limit |-> maxConcurrency]
    /\ UNCHANGED <<pc, doc, wire>>
    /\ UNCHANGED <<chunks, locations, timestamps, heldBuffer, disk, now,
                   console, written, steps>>

\* a loadAsync of the batch settles; the last one of a batch resumes
\* loadMultipleAsync, which stores the batch and starts the next one or
\* returns mcaFiles
LoadSettled ==
    /\ tasks.op = "loadMultipleAsync"
    /\ \E f \in tasks.inflight :
       \E result \in {tasks.outcomes[f]} :
       \E results \in {Put(tasks.results, f, result)} :
           /\ console' = console \o
                  (IF result.success THEN <<>>
                   ELSE <<[failed |-> result.filepath,
                           error |-> result.error]>>)
           /\ IF tasks.inflight # {f}
              THEN /\ tasks' = [tasks EXCEPT !.inflight = @ \ {f},
                                             !.results = results]
                   /\ back' = back
              ELSE \E mcaFiles \in {storeLoads(tasks.returned, results,
                                               Ascending(DOMAIN results))} :
                   IF tasks.i + tasks.limit < Len(tasks.filepaths)
                   THEN /\ tasks' =
                               [tasks EXCEPT
                                   !.i = @ + tasks.limit,
                                   !.inflight = batch(tasks.i + tasks.limit,
                                                      tasks.limit,
                                                      Len(tasks.filepaths)),
                                   !.results = Empty,
                                   !.returned = mcaFiles,
                                   !.started = @ \o Ascending(
                                       batch(tasks.i + tasks.limit, tasks.limit,
                                             Len(tasks.filepaths)))]
                        /\ back' = back
                   ELSE /\ tasks' = Idle
                        /\ back' = [ok |-> TRUE, v |-> mcaFiles]
    /\ UNCHANGED <<pc, doc, wire>>
    /\ UNCHANGED <<chunks, locations, timestamps, heldBuffer, disk, now, last,
                   written, steps>>

\* MCAFile.saveMultipleAsync(mcaFiles, {maxConcurrency}) up to the first
\* await Promise.all(savePromises); with no entry it returns []
SaveMultipleAsyncCall ==
    /\ last.op = "new"
    /\ tasks = Idle
    /\ \E settled \in {<<>> \o [filepath \in 1..MaxFiles |->
                                   saveTask([key |-> filepath,
                                             data |-> Held(filepath)])]} :
       \E filepaths \in PathLists, maxConcurrency \in BulkLimits :
       \E entries \in {[k \in 1..Len(filepaths) |->
                           [key |-> filepaths[k],
                            data |-> Held(filepaths[k])]]} :
           /\ tasks' = IF Len(entries) = 0 THEN Idle
                       ELSE [op |-> "saveMultipleAsync", limit |-> maxConcurrency,
                             entries |-> entries, i |-> 0,
                             inflight |-> batch(0, maxConcurrency,
                                                Len(entries)),
                             results |-> Empty, returned |-> <<>>,
                             started |-> Ascending(batch(0, maxConcurrency,
                                                         Len(entries))),
                             outcomes |-> [k \in 1..Len(entries) |->
                                              settled[entries[k].key]]]
           /\ back' = IF Len(entries) = 0 THEN [ok |-> TRUE, v |-> <<>>]
                      ELSE back
           /\ last' = [op |-> "saveMultipleAsync", entries |-> entries,
                       limit |-> maxConcurrency]
    /\ UNCHANGED <<pc, doc, wire>>
    /\ UNCHANGED <<chunks, locations, timestamps, heldBuffer, disk, now,
                   console, written, steps>>

\* a saveAsync of the batch settles; the last one of a batch resumes
\* saveMultipleAsync, which pushes the batch results and starts the next
\* batch or returns results
SaveSettled ==
    /\ tasks.op = "saveMultipleAsync"
    /\ \E f \in tasks.inflight :
       \E result \in {tasks.outcomes[f]} :
       \E batchResults \in {Put(tasks.results, f, result)} :
           /\ console' = console \o
                  (IF result.success THEN <<>>
                   ELSE <<[failed |-> result.filepath,
                           error |-> result.error]>>)
           /\ IF tasks.inflight # {f}
              THEN /\ tasks' = [tasks EXCEPT !.inflight = @ \ {f},
                                             !.results = batchResults]
                   /\ back' = back
              ELSE \E results \in
                       {tasks.returned \o
                            [n \in 1..Cardinality(DOMAIN batchResults) |->
                                batchResults[tasks.i + n]]} :
                   IF tasks.i + tasks.limit < Len(tasks.entries)
                   THEN /\ tasks' =
                               [tasks EXCEPT
                                   !.i = @ + tasks.limit,
                                   !.inflight = batch(tasks.i + tasks.limit,
                                                      tasks.limit,
                                                      Len(tasks.entries)),
                                   !.results = Empty,
                                   !.returned = results,
                                   !.started = @ \o Ascending(
                                       batch(tasks.i + tasks.limit, tasks.limit,
                                             Len(tasks.entries)))]
                        /\ back' = back
                   ELSE /\ tasks' = Idle
                        /\ back' = [ok |-> TRUE, v |-> results]
    /\ UNCHANGED <<pc, doc, wire>>
    /\ UNCHANGED <<chunks, locations, timestamps, heldBuffer, disk, now, last,
                   written, steps>>

NextBulk ==
    \/ ParseFileAsync
    \/ ChunkDone
    \/ LoadMultipleAsyncCall
    \/ LoadSettled
    \/ SaveMultipleAsyncCall
    \/ SaveSettled

SpecBulk == InitBulk /\ [][NextBulk]_vars

\* the event loop runs the callback of every file and zlib operation that
\* has completed, so a task in flight settles
SpecBulkFair ==
    /\ SpecBulk
    /\ WF_vars(ChunkDone)
    /\ WF_vars(LoadSettled)
    /\ WF_vars(SaveSettled)

\* the number of items the bulk call was given
InputLength ==
    IF last.op = "loadMultipleAsync" THEN Len(last.filepaths)
    ELSE Len(last.entries)

\* what was returned for position k of the input is the outcome of that
\* item: the archive or success record of an item that succeeds, an error
\* record of an item that fails
OutcomeOf(k) ==
    IF last.op = "loadMultipleAsync"
    THEN IF Exists(last.filepaths[k])
         THEN /\ "key" \in DOMAIN back.v[k]
              /\ back.v[k].key = last.filepaths[k]
              /\ back.v[k].data = loadAsync
         ELSE /\ "error" \in DOMAIN back.v[k]
              /\ back.v[k].filepath = last.filepaths[k]
    ELSE /\ back.v[k].filepath = last.entries[k].key
         /\ back.v[k].success
                <=> createMCABufferAsync(last.entries[k].data, Empty, 1).ok
         /\ ~back.v[k].success => "error" \in DOMAIN back.v[k]

\* C23: loadMultipleAsync and saveMultipleAsync have returned: there are as
\* many outcomes as inputs, outcome k is that of input k, each failed file
\* has an error record and each successful file its archive or success
\* record.
BulkOutcomes ==
    (/\ tasks = Idle
     /\ last.op \in {"loadMultipleAsync", "saveMultipleAsync"}
     /\ back.ok) =>
        /\ Len(back.v) = InputLength
        /\ \A k \in 1..InputLength : OutcomeOf(k)

\* a batched operation is running
Running == tasks.op \in {"loadAsync", "loadMultipleAsync", "saveMultipleAsync"}

\* the items the running operation was given
Items ==
    CASE tasks.op = "loadAsync" -> tasks.validChunks
      [] tasks.op = "loadMultipleAsync" -> tasks.filepaths
      [] tasks.op = "saveMultipleAsync" -> tasks.entries

\* a step of a batched operation: a further batch is started only by the
\* step in which the last task in flight settles, and is then all that is
\* in flight; the operation returns only when every position of its input
\* has been started once, in input order
BatchStep ==
    Running =>
        /\ (tasks'.op = tasks.op /\ tasks'.started # tasks.started) =>
               /\ Cardinality(tasks.inflight) = 1
               /\ tasks'.inflight =
                      {tasks'.started[k] :
                           k \in (Len(tasks.started) + 1)..Len(tasks'.started)}
        /\ tasks' = Idle =>
               /\ Cardinality(tasks.inflight) = 1
               /\ tasks.started = [k \in 1..Len(Items) |-> k]

\* C30: the eager parseFileAsync, loadMultipleAsync and saveMultipleAsync,
\* called with maxConcurrency >= 1 on a finite input, return; while they
\* run, the positions started so far are 1, 2, ... each once and in input
\* order, a batch is started only when the one before has settled, and at
\* the return every position has been started.
BatchedTermination ==
    /\ [](Running =>
              /\ tasks.started = [k \in 1..Len(tasks.started) |-> k]
              /\ tasks.inflight \subseteq 1..Len(tasks.started)
              /\ tasks.inflight # {})
    /\ [][BatchStep]_vars
    /\ (Running ~> tasks = Idle)

\* loadMultipleAsync has returned from three paths loaded in two batches
BatchedTerminationWitness ==
    /\ tasks = Idle
    /\ last.op = "loadMultipleAsync"
    /\ Len(last.filepaths) = 3
    /\ last.limit = 2
    /\ back.ok
    /\ Len(console) = 1

----------------------------------------------------------------------------
(* The editing helpers of MinecraftNBT (mc-nbt.js), on JavaScript values.
   A value is a record whose one field name tells its kind; a tag, and the
   payload {type, value} of a list, is a record of fields type and value. *)

Num(n) == [num |-> n, frac |-> 0]
Frac(n, f) == [num |-> n, frac |-> f]
Str(s) == [str |-> s]
Bool(b) == [bool |-> b]
Arr(items) == [arr |-> items]
Obj(entries) == [obj |-> entries]
Null == [null |-> TRUE]
Undefined == [undefined |-> TRUE]

IsTagShaped(v) == "type" \in DOMAIN v
IsNumber(v) == "num" \in DOMAIN v
IsString(v) == "str" \in DOMAIN v
IsArray(v) == "arr" \in DOMAIN v
IsPlainObject(v) == "obj" \in DOMAIN v
\* typeof v === 'object' && v !== null
IsObject(v) == IsTagShaped(v) \/ IsArray(v) \/ IsPlainObject(v)
\* Number.isInteger(v)
IsInteger(v) == IsNumber(v) /\ v.frac = 0
\* the value counts as true in a condition
Truthy(v) ==
    \/ IsObject(v)
    \/ IsNumber(v) /\ (v.num # 0 \/ v.frac # 0)
    \/ IsString(v) /\ v.str # ""
    \/ "bool" \in DOMAIN v /\ v.bool
    \/ "big" \in DOMAIN v /\ v.big # 0

\* obj[key] of a plain object, undefined when the key is absent
Property(v, key) ==
    IF IsPlainObject(v) /\ \E i \in 1..Len(v.obj) : v.obj[i][1] = key
    THEN v.obj[CHOOSE i \in 1..Len(v.obj) : v.obj[i][1] = key][2]
    ELSE Undefined

\* the segments that are numbers, with the value parseInt gives them
SegmentNumber == [s \in {"0", "1"} |-> IF s = "0" THEN 0 ELSE 1]
isNaN(part) == part \notin DOMAIN SegmentNumber
parseInt(part) == SegmentNumber[part]

InvalidPath == "Invalid path"
IndexOutOfBounds == "List index out of bounds"
CannotSet == "Cannot set value on type"
TypeError == "TypeError"
Done(v) == [ok |-> TRUE, err |-> "", v |-> v]
Fail(kind) == [ok |-> FALSE, err |-> kind]
\* the call threw, and left the data it worked on as given
Threw(kind, data) == [ok |-> FALSE, err |-> kind, v |-> data]

\* one turn of the loop over the segments, shared by getValue and setValue:
\* the tag that the segment addresses within current
Descend(current, part) ==
    IF ~IsObject(current) THEN Fail(InvalidPath)
    ELSE IF ~IsTagShaped(current) THEN Fail(InvalidPath)
    ELSE IF current.type = "compound" /\ Truthy(current.value)
             /\ Truthy(Property(current.value, part))
    THEN Done(Property(current.value, part))
    ELSE IF current.type = "list" /\ Truthy(current.value) /\ ~isNaN(part)
    THEN IF ~(IsTagShaped(current.value) /\ IsArray(current.value.value))
         THEN Fail(TypeError)
         ELSE IF parseInt(part) >= 0
                   /\ parseInt(part) < Len(current.value.value.arr)
         THEN Done(Tag(current.value.type,
                       current.value.value.arr[parseInt(part) + 1]))
         ELSE Fail(IndexOutOfBounds)
    ELSE Fail(InvalidPath)

RECURSIVE getValue(_, _)
getValue(nbtData, parts) ==
    IF parts = <<>> THEN nbtData
    ELSE IF \E s \in {Descend(nbtData, Head(parts))} : s.ok
    THEN getValue(Descend(nbtData, Head(parts)).v, Tail(parts))
    ELSE Undefined

\* An integer of m millions, |m| >= 2148: a JavaScript number outside the
\* 32-bit range, which the integers of the model do not reach.
Millions(m) == [millions |-> m]
IsBeyond(v) == "millions" \in DOMAIN v

\* BigInt(value) of an integer
BigInt(value) ==
    IF IsBeyond(value) THEN [big |-> value.millions, scale |-> 1000000]
    ELSE [big |-> value.num]

RECURSIVE autoDetectType(_)
autoDetectType(value) ==
    IF "bool" \in DOMAIN value
    THEN Tag("byte", Num(IF value.bool THEN 1 ELSE 0))
    ELSE IF IsBeyond(value) THEN Tag("long", BigInt(value))
    ELSE IF IsNumber(value)
    THEN IF IsInteger(value)
         THEN IF value.num >= -128 /\ value.num <= 127
              THEN Tag("byte", value)
              ELSE IF value.num >= -32768 /\ value.num <= 32767
              THEN Tag("short", value)
              ELSE IF value.num >= -2147483647 - 1 /\ value.num <= 2147483647
              THEN Tag("int", value)
              ELSE Tag("long", [big |-> value.num])
         ELSE Tag("double", value)
    ELSE IF IsString(value) THEN Tag("string", value)
    ELSE IF IsArray(value)
    THEN IF Len(value.arr) = 0
         THEN Tag("list", Tag("byte", Arr(<<>>)))
         ELSE Tag("list",
                  Tag(autoDetectType(value.arr[1]).type,
                      Arr([i \in 1..Len(value.arr) |->
                              autoDetectType(value.arr[i]).value])))
    ELSE IF IsPlainObject(value)
    THEN Tag("compound",
             Obj([i \in 1..Len(value.obj) |->
                     <<value.obj[i][1], autoDetectType(value.obj[i][2])>>]))
    ELSE IF "null" \in DOMAIN value THEN Tag("string", Str("null"))
    ELSE Tag("string", Str("undefined"))

createCompound(data) ==
    Tag("compound",
        Obj([i \in 1..Len(data.obj) |->
                <<data.obj[i][1], autoDetectType(data.obj[i][2])>>]))

\* type is "" where the caller gives none
createList(items, type) ==
    IF Len(items.arr) = 0
    THEN Done(Tag("list", Tag(IF type # "" THEN type ELSE "byte", Arr(<<>>))))
    ELSE LET detectedType ==
                 IF type # "" THEN type ELSE autoDetectType(items.arr[1]).type
         IN  Done(Tag("list",
                 Tag(detectedType,
                     Arr([i \in 1..Len(items.arr) |->
                             IF autoDetectType(items.arr[i]).type = detectedType
                             THEN autoDetectType(items.arr[i]).value
                             ELSE items.arr[i]]))))

\* typeof newValue === 'object' && newValue.type && newValue.value !== undefined
IsTagArgument(newValue) == IsTagShaped(newValue) /\ newValue.type # ""

\* entries with entries[key] = value: in place for a key that exists
SetProperty(entries, key, value) ==
    IF \E i \in 1..Len(entries) : entries[i][1] = key
    THEN [i \in 1..Len(entries) |->
             IF entries[i][1] = key THEN <<key, value>> ELSE entries[i]]
    ELSE Append(entries, <<key, value>>)

\* the last step of setValue on the parent it reached
Assign(current, lastPart, newValue) ==
    IF ~IsTagShaped(current) THEN Threw(CannotSet, current)
    ELSE IF current.type = "compound" /\ Truthy(current.value)
    THEN IF ~IsPlainObject(current.value) THEN Threw(TypeError, current)
         ELSE Done(Tag("compound",
                  Obj(SetProperty(current.value.obj, lastPart,
                         IF IsTagArgument(newValue) THEN newValue
                         ELSE autoDetectType(newValue)))))
    ELSE IF current.type = "list" /\ Truthy(current.value) /\ ~isNaN(lastPart)
    THEN IF ~(IsTagShaped(current.value) /\ IsArray(current.value.value))
         THEN Threw(TypeError, current)
         ELSE IF parseInt(lastPart) >= 0
                   /\ parseInt(lastPart) < Len(current.value.value.arr)
         THEN Done(Tag("list",
                  Tag(current.value.type,
                      Arr([current.value.value.arr
                              EXCEPT ![parseInt(lastPart) + 1] =
                                  IF IsTagArgument(newValue)
                                  THEN newValue.value ELSE newValue]))))
         ELSE Threw(IndexOutOfBounds, current)
    ELSE Threw(CannotSet, current)

\* the container with the tag that part addresses replaced by child: the
\* loop hands out the very objects and arrays the document holds, so what
\* the last step writes is written into the document
Within(current, part, child) ==
    IF current.type = "compound"
    THEN Tag("compound", Obj(SetProperty(current.value.obj, part, child)))
    ELSE Tag("list",
             Tag(current.value.type,
                 Arr([current.value.value.arr
                         EXCEPT ![parseInt(part) + 1] = child.value])))

\* setValue on the segments of the path: whether it returned or threw, and
\* the document as the call left it
RECURSIVE setValue(_, _, _)
setValue(nbtData, parts, newValue) ==
    IF Len(parts) = 1 THEN Assign(nbtData, parts[1], newValue)
    ELSE IF \E s \in {Descend(nbtData, Head(parts))} : ~s.ok
    THEN Threw(Descend(nbtData, Head(parts)).err, nbtData)
    ELSE CHOOSE r \in
             {[ok |-> below.ok, err |-> below.err,
               v |-> Within(nbtData, Head(parts), below.v)] :
                 below \in {setValue(Descend(nbtData, Head(parts)).v,
                                     Tail(parts), newValue)}} : TRUE

\* the diagnostics of _validateTag, each by its kind
RECURSIVE _validateTag(_)
_validateTag(tag) ==
    IF ~IsObject(tag) THEN <<"not an object">>
    ELSE IF ~IsTagShaped(tag) THEN <<"missing type or value">>
    ELSE IF tag.type \notin DOMAIN TAG_TYPES THEN <<"invalid tag type">>
    ELSE IF tag.type = "compound"
    THEN IF ~IsPlainObject(tag.value) THEN <<"invalid compound">>
         ELSE Join([i \in 1..Len(tag.value.obj) |->
                       _validateTag(tag.value.obj[i][2])], <<>>)
    ELSE IF tag.type = "list"
    THEN IF ~(IsTagShaped(tag.value) /\ IsArray(tag.value.value))
         THEN <<"invalid list">>
         ELSE Join([i \in 1..Len(tag.value.value.arr) |->
                       _validateTag(Tag(tag.value.type,
                                        tag.value.value.arr[i]))], <<>>)
    ELSE IF tag.type = "byte"
    THEN IF ~IsInteger(tag.value) \/ tag.value.num < -128
              \/ tag.value.num > 127
         THEN <<"invalid byte">> ELSE <<>>
    ELSE IF tag.type = "short"
    THEN IF ~IsInteger(tag.value) \/ tag.value.num < -32768
              \/ tag.value.num > 32767
         THEN <<"invalid short">> ELSE <<>>
    ELSE IF tag.type = "int"
    THEN IF ~IsInteger(tag.value) \/ tag.value.num < -2147483647 - 1
              \/ tag.value.num > 2147483647
         THEN <<"invalid int">> ELSE <<>>
    ELSE IF tag.type = "long"
    THEN IF "big" \notin DOMAIN tag.value THEN <<"invalid long">> ELSE <<>>
    ELSE <<>>

validate(nbtData) == _validateTag(nbtData)

----------------------------------------------------------------------------
(* A document built with createCompound, createList or autoDetectType and
   then edited with setValue, read with getValue and checked with validate *)

MaxEdits == 2

Segments == <<"a", "l", "c", "m", "0", "1">>
\* the paths of one or two segments, and those of three segments that pass
\* through a compound or a list element
Paths ==
    LET All == {Segments[i] : i \in 1..Len(Segments)}
    IN  [1..1 -> All] \cup [1..2 -> All]
            \cup {p \in [1..3 -> All] :
                        \/ p[1] = "c" /\ p[2] = "l"
                        \/ p[1] = "m" /\ p[2] = "0"}

CompoundInputs ==
    << Obj(<<>>),
       Obj(<< <<"a", Num(1)>>,
              <<"l", Arr(<<Num(1)>>)>>,
              <<"c", Obj(<< <<"a", Str("x")>>, <<"l", Arr(<<Num(1), Num(2)>>)>> >>)>>,
              <<"m", Arr(<< Obj(<< <<"a", Num(1)>> >>) >>)>> >>),
       Obj(<< <<"a", Num(300)>>, <<"l", Arr(<<Num(1), Num(300)>>)>> >>) >>

ListInputs ==
    << [items |-> Arr(<<>>), type |-> ""],
       [items |-> Arr(<<>>), type |-> "int"],
       [items |-> Arr(<<Num(1), Num(2)>>), type |-> ""],
       [items |-> Arr(<<Num(1), Num(2)>>), type |-> "int"],
       [items |-> Arr(<<Num(1), Num(300)>>), type |-> ""],
       [items |-> Arr(<<Num(1), Str("x")>>), type |-> ""],
       [items |-> Arr(<<Str("x"), Num(1)>>), type |-> "string"],
       [items |-> Arr(<< Obj(<< <<"a", Num(1)>> >>),
                         Obj(<< <<"a", Num(2)>> >>) >>), type |-> ""] >>

NativeInputs ==
    << Num(1), Num(70000), Frac(1, 5), Bool(TRUE), Str("x"), Null,
       Arr(<< Arr(<<Num(1)>>), Arr(<<Num(2), Num(3)>>) >>) >>

\* what setValue is given: tags, and native values
NewValues ==
    << Tag("byte", Num(5)),
       Tag("compound", Obj(<< <<"a", Tag("byte", Num(1))>> >>)),
       Num(7) >>

editorIdle ==
    <<wire, chunks, locations, timestamps, heldBuffer, disk, now, console,
      tasks, written>>

InitEditor ==
    /\ pc = "in"
    /\ doc = Undefined
    /\ wire = None
    /\ back = None
    /\ NoArchive

CreateCompound ==
    /\ pc = "in"
    /\ \E i \in 1..Len(CompoundInputs) :
          /\ doc' = createCompound(CompoundInputs[i])
          /\ last' = [op |-> "createCompound", data |-> CompoundInputs[i]]
    /\ pc' = "doc"
    /\ UNCHANGED <<back, steps>>
    /\ UNCHANGED editorIdle

CreateList ==
    /\ pc = "in"
    /\ \E i \in 1..Len(ListInputs) :
          \E r \in {createList(ListInputs[i].items, ListInputs[i].type)} :
              /\ doc' = IF r.ok THEN r.v ELSE doc
              /\ pc' = IF r.ok THEN "doc" ELSE "failed"
              /\ last' = [op |-> "createList", items |-> ListInputs[i].items,
                          type |-> ListInputs[i].type, ok |-> r.ok,
                          err |-> r.err]
    /\ UNCHANGED <<back, steps>>
    /\ UNCHANGED editorIdle

AutoDetectType ==
    /\ pc = "in"
    /\ \E i \in 1..Len(NativeInputs) :
          /\ doc' = autoDetectType(NativeInputs[i])
          /\ last' = [op |-> "autoDetectType", value |-> NativeInputs[i]]
    /\ pc' = "doc"
    /\ UNCHANGED <<back, steps>>
    /\ UNCHANGED editorIdle

SetValue ==
    /\ pc = "doc"
    /\ steps < MaxEdits
    /\ \E path \in Paths, i \in 1..Len(NewValues) :
          \E r \in {setValue(doc, path, NewValues[i])} :
              /\ doc' = r.v
              /\ last' = [op |-> "setValue", path |-> path, v |-> NewValues[i],
                          before |-> doc, ok |-> r.ok, err |-> r.err]
    /\ steps' = steps + 1
    /\ UNCHANGED <<pc, back>>
    /\ UNCHANGED editorIdle

GetValue ==
    /\ pc = "doc"
    /\ \E path \in Paths :
          /\ back' = [ok |-> TRUE, v |-> getValue(doc, path)]
          /\ last' = [op |-> "get", path |-> path]
    /\ pc' = "read"
    /\ UNCHANGED <<doc, steps>>
    /\ UNCHANGED editorIdle

Validate ==
    /\ pc = "doc"
    /\ back' = [ok |-> TRUE, errors |-> validate(doc)]
    /\ last' = [op |-> "validate"]
    /\ pc' = "validated"
    /\ UNCHANGED <<doc, steps>>
    /\ UNCHANGED editorIdle

NextEditor ==
    \/ CreateCompound
    \/ CreateList
    \/ AutoDetectType
    \/ SetValue
    \/ GetValue
    \/ Validate

SpecEditor == InitEditor /\ [][NextEditor]_vars

IsPrefix(p, q) == Len(p) <= Len(q) /\ SubSeq(q, 1, Len(p)) = p
\* neither path lies on the way to the other
Apart(p, q) == ~IsPrefix(p, q) /\ ~IsPrefix(q, p)

\* C11: when setValue(path, t) returns for a tag t, whether the last segment
\* is a compound key or a list index, getValue(path) then gives a tag of the
\* type and value of t, and getValue of every path that does not lie on the
\* way to path or beyond it gives what it gave before the call.
SetThenGet ==
    (last.op = "setValue" /\ last.ok /\ IsTagArgument(last.v)) =>
        /\ getValue(doc, last.path) = last.v
        /\ \A q \in Paths :
              Apart(q, last.path) =>
                  getValue(doc, q) = getValue(last.before, q)

\* the tag that the first k segments of path address in data
Reached(data, path, k) == getValue(data, SubSeq(path, 1, k))
\* the first segment of path, short of the last, that addresses nothing
FirstMissing(data, path) ==
    CHOOSE k \in 1..(Len(path) - 1) :
        /\ Reached(data, path, k) = Undefined
        /\ \A j \in 1..(k - 1) : Reached(data, path, j) # Undefined
ParentMissing(data, path) ==
    \E k \in 1..(Len(path) - 1) : Reached(data, path, k) = Undefined
IsListTag(t) == IsTagShaped(t) /\ t.type = "list"
IsContainer(t) == IsTagShaped(t) /\ t.type \in {"compound", "list"}
\* a segment that is a number, on a list that has no such index
OutOfRange(t, part) ==
    /\ IsListTag(t)
    /\ ~isNaN(part)
    /\ IsTagShaped(t.value)
    /\ IsArray(t.value.value)
    /\ ~(parseInt(part) >= 0 /\ parseInt(part) < Len(t.value.value.arr))

ValidationSoundness ==
    /\ pc = "doc" => validate(doc) = <<>>
    /\ pc = "validated" => back.errors = <<>>

\* some item is inferred to be of another type than the list: the type
\* given, or the type inferred from the first item when none is given
Heterogeneous(items, type) ==
    /\ Len(items.arr) > 0
    /\ \E i \in 1..Len(items.arr) :
          autoDetectType(items.arr[i]).type #
              (IF type # "" THEN type ELSE autoDetectType(items.arr[1]).type)

\* C18: createList fails, and returns no list, for every non-empty sequence
\* of items of which one is inferred to be of another type than the list.
CreateListRejects ==
    (last.op = "createList" /\ Heterogeneous(last.items, last.type)) =>
        ~last.ok

(***************************************************************************)
(* JSON ingest: SNBTConverter.fromJSON, with inferTypes left at its        *)
(* default, next to the type inference of the editor.                      *)
(***************************************************************************)

\* the numbers the strings of JsonValues stand for
NumericStrings == [s \in {"7", ""} |-> IF s = "7" THEN 7 ELSE 0]

\* Number(value)
RECURSIVE ToNumber(_)
ToNumber(value) ==
    IF IsNumber(value) \/ IsBeyond(value) THEN value
    ELSE IF "bool" \in DOMAIN value THEN Num(IF value.bool THEN 1 ELSE 0)
    ELSE IF IsString(value)
    THEN IF value.str \in DOMAIN NumericStrings
         THEN Num(NumericStrings[value.str])
         ELSE NaN
    ELSE IF "null" \in DOMAIN value THEN Num(0)
    ELSE IF IsArray(value)
    THEN IF Len(value.arr) = 0 THEN Num(0)
         ELSE IF Len(value.arr) > 1 THEN NaN
         ELSE IF "null" \in DOMAIN value.arr[1]
                 \/ "undefined" \in DOMAIN value.arr[1] THEN Num(0)
         ELSE IF IsNumber(value.arr[1]) \/ IsBeyond(value.arr[1])
                 \/ IsString(value.arr[1]) \/ IsArray(value.arr[1])
         THEN ToNumber(value.arr[1])
         ELSE NaN
    ELSE NaN

\* Math.floor of a number that is not negative or is an integer
Floor(number) ==
    IF IsNumber(number) THEN Num(number.num) ELSE number

\* Math.max(lo, Math.min(hi, number))
Clamp(lo, hi, number) ==
    IF IsBeyond(number) THEN Num(IF number.millions > 0 THEN hi ELSE lo)
    ELSE IF IsNumber(number)
    THEN Num(IF number.num < lo THEN lo
             ELSE IF number.num > hi THEN hi ELSE number.num)
    ELSE number

\* String(value) of a string, a boolean, null or a number
String(value) ==
    IF IsString(value) THEN value.str
    ELSE IF "bool" \in DOMAIN value
    THEN (IF value.bool THEN "true" ELSE "false")
    ELSE IF "null" \in DOMAIN value THEN "null"
    ELSE IF IsBeyond(value) THEN ToString(value.millions) \o "000000"
    ELSE IF IsNumber(value)
    THEN IF value.frac = 0 THEN ToString(value.num)
         ELSE ToString(value.num) \o "." \o ToString(value.frac)
    ELSE "[object Object]"

convertToType(value, type) ==
    IF type = "byte" THEN Clamp(-128, 127, Floor(ToNumber(value)))
    ELSE IF type = "short" THEN Clamp(-32768, 32767, Floor(ToNumber(value)))
    ELSE IF type = "int"
    THEN Clamp(-2147483647 - 1, 2147483647, Floor(ToNumber(value)))
    ELSE IF type = "long" THEN BigInt(value)
    ELSE IF type \in {"float", "double"} THEN ToNumber(value)
    ELSE IF type = "string" THEN Str(String(value))
    ELSE value

\* expectedType "" is the null of the source
RECURSIVE convertValue(_, _)
convertValue(value, expectedType) ==
    IF "null" \in DOMAIN value \/ "undefined" \in DOMAIN value
    THEN Tag("byte", Num(0))
    ELSE IF expectedType # ""
    THEN Tag(expectedType, convertToType(value, expectedType))
    ELSE IF "bool" \in DOMAIN value
    THEN Tag("byte", Num(IF value.bool THEN 1 ELSE 0))
    ELSE IF IsBeyond(value) THEN Tag("int", value)
    ELSE IF IsNumber(value)
    THEN IF IsInteger(value)
         THEN IF value.num >= -128 /\ value.num <= 127
              THEN Tag("byte", value)
              ELSE IF value.num >= -32768 /\ value.num <= 32767
              THEN Tag("short", value)
              ELSE Tag("int", value)
         ELSE Tag("double", value)
    ELSE IF IsString(value) THEN Tag("string", value)
    ELSE IF IsArray(value)
    THEN IF Len(value.arr) = 0
         THEN Tag("list", Tag("byte", Arr(<<>>)))
         ELSE Tag("list",
                  Tag(convertValue(value.arr[1], "").type,
                      Arr([i \in 1..Len(value.arr) |->
                              convertValue(value.arr[i],
                                  convertValue(value.arr[1], "").type).value])))
    ELSE IF IsPlainObject(value)
    THEN Tag("compound",
             Obj([i \in 1..Len(value.obj) |->
                     <<value.obj[i][1], convertValue(value.obj[i][2], "")>>]))
    ELSE Tag("string", Str(String(value)))

\* SNBTConverter.fromJSON(jsonData)
SNBTConverter_fromJSON(jsonData) ==
    IF ~Truthy(jsonData) \/ ~IsObject(jsonData) THEN Null
    ELSE [name |-> IF Truthy(Property(jsonData, "name"))
                   THEN Property(jsonData, "name").str ELSE "",
          type |-> IF Truthy(Property(jsonData, "type"))
                   THEN Property(jsonData, "type").str ELSE "compound",
          value |-> convertValue(Property(jsonData, "value"), "").value]

\* the scalars of JSON: booleans, integers on both sides of each width,
\* a number with a fraction, strings and null
JsonScalars ==
    { Bool(TRUE), Bool(FALSE), Num(0), Num(127), Num(128), Num(-129),
      Num(32768), Num(2147483647), Millions(3000), Millions(-3000),
      Frac(1, 5), Str("x"), Str("7"), Null }

\* scalars, arrays of up to two scalars, an array of arrays, an array of
\* objects, and objects of one or two members
JsonValues ==
    JsonScalars
      \cup { Arr(<<>>) }
      \cup { Arr(<<a>>) : a \in JsonScalars }
      \cup { Arr(<<a, b>>) : a \in JsonScalars, b \in JsonScalars }
      \cup { Arr(<<Arr(<<Num(1)>>), Arr(<<Num(2), Num(300)>>)>>),
             Arr(<<Obj(<< <<"a", Num(1)>> >>), Obj(<< <<"a", Num(2)>> >>)>>) }
      \cup { Obj(<< <<"a", a>> >>) : a \in JsonScalars }
      \cup { Obj(<< <<"a", Arr(<<a, Num(300)>>)>>, <<"b", a>> >>) :
                a \in JsonScalars }

InitIngest ==
    /\ pc = "in"
    /\ doc = Undefined
    /\ wire = None
    /\ back = None
    /\ NoArchive

\* SNBTConverter.fromJSON({ value }): no name and no explicit type
FromJSONValue ==
    /\ pc = "in"
    /\ \E value \in JsonValues :
          /\ doc' = value
          /\ back' = SNBTConverter_fromJSON(Obj(<< <<"value", value>> >>))
    /\ pc' = "ingested"
    /\ UNCHANGED <<wire, archiveVars>>

\* MinecraftNBT.autoDetectType(value) of the same value
InferType ==
    /\ pc = "ingested"
    /\ wire' = autoDetectType(doc)
    /\ pc' = "inferred"
    /\ UNCHANGED <<doc, back, archiveVars>>

NextIngest ==
    \/ FromJSONValue
    \/ InferType

SpecIngest == InitIngest /\ [][NextIngest]_vars

\* C25: for every native JSON value ingested by fromJSON without an explicit
\* type, the value and every value nested in it get the type and the payload
\* that autoDetectType gives them: the ingested document has the inferred
\* type and the inferred payload.
IngestInfers ==
    pc = "inferred" => back.type = wire.type /\ back.value = wire.value

====
